---- MODULE Spec2Model ----
(***************************************************************************)
(* A state-machine model of modules/medianetAnalyticsAdapter.js (the       *)
(* media.net analytics adapter: an event-log aggregator driven by the      *)
(* host's auction events) and of the smaato bid adapter that follows it in *)
(* the same source file (pure request/response transformers).              *)
(*                                                                         *)
(* JavaScript values are encoded as follows.  `undefined` is the string    *)
(* Undefined where the value is a string, UndefNum where it is a number    *)
(* and NoTime where it is a timestamp.  Objects that may be absent carry   *)
(* an explicit flag (config.exists, targeting.set).  An insertion-ordered  *)
(* object used as a map (auctions) is a sequence of records looked up by   *)
(* key.  Fields of Bid, Auction and the log URLs that no handler reads and *)
(* that are only copied into the query string are left out.                *)
(***************************************************************************)
EXTENDS Integers, Sequences, FiniteSets, TLC

VARIABLES
  auctions,          \* let auctions = {}           (insertion ordered)
  config,            \* let config                  (a Configure, or absent)
  pageDetails,       \* let pageDetails             (a PageDetail, or absent)
  logsQueue,         \* let logsQueue = []
  errorQueue,        \* let errorQueue = []
  analyticsEnabled,  \* getGlobal().medianetGlobals.analyticsEnabled
  ajaxPending,       \* config fetches in flight bound to the current config
  staleAjax,         \* config fetches in flight bound to a replaced config
  originEnableCalls, \* calls of medianetAnalytics.originEnableAnalytics
  cidErrors,         \* logError('... cid is required.') calls
  ignored,           \* history: the last event named no recorded auction or slot
  callsLeft,         \* the calls the model still makes on the adapter
  smInput,           \* smaato: the argument of the last call
  smOutput           \* smaato: what the last call returned (or that it threw)

adapterVars == <<auctions, config, pageDetails, logsQueue, errorQueue,
                 analyticsEnabled, ajaxPending, staleAjax, originEnableCalls,
                 cidErrors, ignored, callsLeft>>
smaatoVars == <<smInput, smOutput>>
vars == <<auctions, config, pageDetails, logsQueue, errorQueue,
          analyticsEnabled, ajaxPending, staleAjax, originEnableCalls,
          cidErrors, ignored, callsLeft, smInput, smOutput>>

----------------------------------------------------------------------------
(* Bounds of the model *)

\* The number of calls (events, callbacks, API calls) made on the adapter
MaxSteps == 5

----------------------------------------------------------------------------
(* Program constants *)

Undefined == "undefined"
UndefNum == -1
NoTime == 0

DEFAULT_LOGGING_PERCENT == 50
MEDIANET_BIDDER_CODE == "medianet"
ERROR_CONFIG_JSON_PARSE == "analytics_config_parse_fail"
ERROR_CONFIG_FETCH == "analytics_config_ajax_fail"
ERROR_WINNING_BID_ABSENT == "winning_bid_absent"
ERROR_WINNING_AUCTION_MISSING == "winning_auction_missing"
BID_SUCCESS == 1
BID_NOBID == 2
BID_TIMEOUT == 3
BID_FLOOR_REJECTED == 12
DUMMY_BIDDER == "-2"
CONFIG_PENDING == 0
CONFIG_PASS == 1
CONFIG_ERROR == 3
VALID_URL_KEY == {"canonical_url", "og_url", "twitter_url"}
DEFAULT_URL_KEY == "topmostLocation"
APPR == "APPR"
RA == "RA"
AUCTION_IN_PROGRESS == "inProgress"
AUCTION_COMPLETED == "completed"

----------------------------------------------------------------------------
(* Generic helpers *)

EmptyMap == [x \in {} |-> TRUE]

Put(m, k, v) == [x \in DOMAIN m \cup {k} |-> IF x = k THEN v ELSE m[x]]

IsPrefix(s, t) == Len(s) <= Len(t) /\ SubSeq(t, 1, Len(s)) = s

Min(S) == CHOOSE x \in S : \A y \in S : x <= y

\* Array.prototype.find as an index: the first i with seq[i][key] = value, else 0
FindIndex(seq, key, value) ==
  LET hits == {i \in 1..Len(seq) : seq[i][key] = value}
  IN IF hits = {} THEN 0 ELSE Min(hits)

----------------------------------------------------------------------------
(* Input domains *)

AuctionIds == {"a1", "a2"}
AdUnitCodes == {"u1", "u2"}
BidIds == {"b1", "b2"}
AdIds == {"ad1", "ad2"}
Bidders == {MEDIANET_BIDDER_CODE, "appnexus"}
Cids == {"cid1"}

\* window.location of the top page: a hostname and the criteria of the query
\* string, each "k", "k=" or "k=v" (v = "" when nothing follows the key)
Criterion(k, v) == [k |-> k, v |-> v]
PageUrls ==
  { [hostname |-> "pub.com", search |-> <<>>],
    [hostname |-> "localhost", search |-> <<>>],
    [hostname |-> "pub.com", search |-> <<Criterion("medianet_test", "1")>>],
    [hostname |-> "pub.com", search |-> <<Criterion("medianet_test", "")>>],
    [hostname |-> "pub.com", search |-> <<Criterion("mnet_setconfig", "pct100")>>] }

\* enableAnalytics(configuration): no argument, no options, options without
\* cid, an empty cid, a cid
Configurations ==
  { [given |-> FALSE, options |-> FALSE, cid |-> Undefined],
    [given |-> TRUE, options |-> FALSE, cid |-> Undefined],
    [given |-> TRUE, options |-> TRUE, cid |-> Undefined],
    [given |-> TRUE, options |-> TRUE, cid |-> ""],
    [given |-> TRUE, options |-> TRUE, cid |-> "cid1"] }

\* Bodies of the config endpoint's answer: text JSON.parse rejects, the JSON
\* null, or an object with an optional percentage, an optional percentage
\* for this page's domain and an optional urlKey
ConfigResponses ==
  { [parses |-> FALSE, isNull |-> FALSE, percentage |-> UndefNum,
     domainPercentage |-> UndefNum, urlKey |-> Undefined],
    [parses |-> TRUE, isNull |-> TRUE, percentage |-> UndefNum,
     domainPercentage |-> UndefNum, urlKey |-> Undefined] }
  \cup
  { [parses |-> TRUE, isNull |-> FALSE, percentage |-> p,
     domainPercentage |-> d, urlKey |-> k] :
      p \in {UndefNum, 10, 100}, d \in {UndefNum, 100},
      k \in {Undefined, "canonical_url"} }

\* Math.random() * 100, a number in [0, 100)
RandomDraws == {0, 99}

----------------------------------------------------------------------------
(* JavaScript truthiness of a string-valued property *)

Truthy(s) == s # Undefined /\ s # ""

----------------------------------------------------------------------------
(* class URL *)

\* URL.parseQS: acc[k] = v || '' for every criterion, later ones overwriting
\* (no modelled key ends in "[]")
RECURSIVE parseQS(_)
parseQS(query) ==
  IF query = <<>> THEN EmptyMap
  ELSE LET acc == parseQS(SubSeq(query, 1, Len(query) - 1))
           c == query[Len(query)]
       IN Put(acc, c.k, IF Truthy(c.v) THEN c.v ELSE "")

parseUrl(url) == [hostname |-> url.hostname, search |-> parseQS(url.search)]

\* deepAccess(urlObj, 'search.' + key): the value, or undefined
SearchParam(urlObj, key) ==
  IF key \in DOMAIN urlObj.search THEN urlObj.search[key] ELSE Undefined

----------------------------------------------------------------------------
(* class PageDetail *)

NoPageDetails ==
  [exists |-> FALSE, domain |-> Undefined,
   topmostLocation |-> [hostname |-> Undefined, search |-> <<>>]]

PageDetail(url) ==
  [exists |-> TRUE, domain |-> url.hostname, topmostLocation |-> url]

----------------------------------------------------------------------------
(* class ErrorLogger *)

\* new ErrorLogger(event, additionalData): the fields of the pixel URL the
\* model keeps
ErrorLogger(event, cfg, page) ==
  [event |-> event, dn |-> page.domain, cid |-> cfg.cid]

\* ErrorLogger.send: errorQueue.push(url)
ErrorLoggerSend(queue, entry) == Append(queue, entry)

----------------------------------------------------------------------------
(* class Configure *)

NoConfig ==
  [exists |-> FALSE, cid |-> Undefined, ajaxState |-> CONFIG_PENDING,
   loggingPercent |-> DEFAULT_LOGGING_PERCENT, urlToConsume |-> DEFAULT_URL_KEY,
   debug |-> FALSE, gdprConsent |-> Undefined, gdprApplies |-> Undefined,
   uspConsent |-> Undefined, shouldBeLogged |-> EmptyMap,
   mnetDebugConfig |-> ""]

Configure(cid) == [NoConfig EXCEPT !.exists = TRUE, !.cid = cid]

\* Configure.setDataFromResponse: a percentage parseInt accepts is taken
setDataFromResponse(cfg, percentage) ==
  IF percentage # UndefNum THEN [cfg EXCEPT !.loggingPercent = percentage]
  ELSE cfg

\* Configure.overrideToDebug: "pct100" stands for the URI-encoded JSON
\* {"percentage":100}; any other non-empty text fails JSON.parse and is ignored
overrideToDebug(cfg, response) ==
  IF response = "" THEN cfg
  ELSE IF response = "pct100" THEN setDataFromResponse(cfg, 100)
  ELSE cfg

\* The try block of _parseResponse throwing on JSON.parse alone
parseThrows_JsonOnly(response) == ~response.parses

\* The try block of _parseResponse throws: JSON.parse rejects the text, or
\* setDataFromResponse reads the percentage of null
parseThrows(response) == ~response.parses \/ response.isNull

\* Configure._parseResponse, the changes to the Configure it is bound to
parseResponse(cfg, response) ==
  IF parseThrows(response) THEN [cfg EXCEPT !.ajaxState = CONFIG_ERROR]
  ELSE LET c1 == setDataFromResponse(cfg, response.percentage)
           c2 == setDataFromResponse(c1, response.domainPercentage)
           c3 == overrideToDebug(c2, c2.mnetDebugConfig)
       IN [c3 EXCEPT
             !.urlToConsume = IF response.urlKey \in VALID_URL_KEY
                              THEN response.urlKey ELSE @,
             !.ajaxState = CONFIG_PASS]

\* Configure._errorFetch that also forces logging to 100%
errorFetch_FullLogging(cfg) ==
  [cfg EXCEPT !.ajaxState = CONFIG_ERROR, !.loggingPercent = 100]

\* Configure._errorFetch, the changes to the Configure it is bound to
errorFetch(cfg) == [cfg EXCEPT !.ajaxState = CONFIG_ERROR]

\* The test of Configure.init without the comparison with 'localhost'
isTestMode_ParamOnly(urlObj) == Truthy(SearchParam(urlObj, "medianet_test"))

\* The test of Configure.init that forces logging to 100%
isTestMode(urlObj) ==
  Truthy(SearchParam(urlObj, "medianet_test")) \/ urlObj.hostname = "localhost"

\* Configure.init, the changes to the Configure
init(cfg, page) ==
  LET urlObj == parseUrl(page.topmostLocation)
  IN IF isTestMode(urlObj)
     THEN [cfg EXCEPT !.loggingPercent = 100, !.ajaxState = CONFIG_PASS,
                      !.debug = TRUE]
     ELSE IF Truthy(SearchParam(urlObj, "mnet_setconfig"))
     THEN [cfg EXCEPT !.mnetDebugConfig = SearchParam(urlObj, "mnet_setconfig")]
     ELSE cfg

\* Configure.init, whether it reaches the ajax call
initStartsFetch(page) == ~isTestMode(parseUrl(page.topmostLocation))

\* isSampled: r is the value of Math.random() * 100
isSampled(cfg, r) == r < cfg.loggingPercent

\* getShouldBeLogged drawing anew at every call
getShouldBeLogged_Redraws(cfg, logType, r) ==
  [cfg EXCEPT !.shouldBeLogged = Put(@, logType, isSampled(cfg, r))]

\* AdSlot.getShouldBeLogged, the config after the call
getShouldBeLogged(cfg, logType, r) ==
  IF logType \in DOMAIN cfg.shouldBeLogged THEN cfg
  ELSE [cfg EXCEPT !.shouldBeLogged = Put(@, logType, isSampled(cfg, r))]

----------------------------------------------------------------------------
(* class Bid, class AdSlot, class BidWrapper, class Auction *)

\* new Bid(bidId, bidder, src, start, adUnitCode, ...)
Bid(bidId, bidder, adUnitCode) ==
  [bidId |-> bidId, bidder |-> bidder, adUnitCode |-> adUnitCode,
   iwb |-> 0, winner |-> 0,
   status |-> IF bidder = DUMMY_BIDDER THEN BID_SUCCESS ELSE BID_TIMEOUT,
   cpm |-> UndefNum, width |-> UndefNum, height |-> UndefNum,
   adId |-> Undefined, currency |-> Undefined, used |-> FALSE,
   originalRequestId |-> bidId, requestId |-> Undefined]

\* get size(): '' unless both width and height are truthy
size(bid) ==
  IF bid.width = UndefNum \/ bid.width = 0 \/ bid.height = UndefNum \/ bid.height = 0
  THEN <<>>
  ELSE <<bid.width, bid.height>>

\* Bid.getLoggingData, the fields the model keeps
BidLoggingData(bid) == [adid |-> bid.adId, winner |-> bid.winner]

NoTargeting == [set |-> FALSE, hb_adid |-> Undefined, adIds |-> {}]

\* Auction.floorData = {}
NoFloorData == "{}"

\* bidderRequests[0].bids[0].floorData of AUCTION_INIT: absent, or one of
\* two floor data objects
FloorDatas == {Undefined, "floors1", "floors2"}

\* new AdSlot(tmax, supplyAdCode, context, adext); logged is the set of log
\* types whose flag is true
AdSlot == [logged |-> {}, targeting |-> NoTargeting, medianetPresent |-> 0]

\* new Auction(acid)
Auction(acid) ==
  [acid |-> acid, status |-> AUCTION_IN_PROGRESS, adSlots |-> EmptyMap,
   bidReqs |-> <<>>, bidObjs |-> <<>>,
   auctionInitTime |-> NoTime, bidWonTime |-> NoTime,
   floorData |-> NoFloorData]

hasEnded(auc) == auc.status = AUCTION_COMPLETED

\* BidWrapper.findReqBid, as an index into bidReqs (0: none)
findReqBid(auc, bidId) == FindIndex(auc.bidReqs, "bidId", bidId)

\* BidWrapper.findBidObj, as an index into bidObjs (0: none)
findBidObj(auc, key, value) == FindIndex(auc.bidObjs, key, value)

\* BidWrapper.addBidReq
addBid(auc, bidRequest) == [auc EXCEPT !.bidReqs = Append(@, bidRequest)]

\* BidWrapper.addBidObj: marks the request of the same bidId as used
addBidObj(auc, bidObj) ==
  LET r == findReqBid(auc, bidObj.bidId)
  IN [auc EXCEPT
        !.bidReqs = IF r # 0 THEN [@ EXCEPT ![r].used = TRUE] ELSE @,
        !.bidObjs = Append(@, bidObj)]

\* Auction.addSlot without the test this.adSlots[adUnitCode] === undefined
addSlot_Always(auc, adUnitCode) ==
  addBidObj([auc EXCEPT !.adSlots = Put(@, adUnitCode, AdSlot)],
            Bid("-1", DUMMY_BIDDER, adUnitCode))

\* Auction.addSlot
addSlot(auc, adUnitCode) ==
  IF adUnitCode \notin DOMAIN auc.adSlots
  THEN addBidObj([auc EXCEPT !.adSlots = Put(@, adUnitCode, AdSlot)],
                 Bid("-1", DUMMY_BIDDER, adUnitCode))
  ELSE auc

\* The auctions map: index of the auction stored under acid (0: none)
AuctionIndex(aucs, acid) == FindIndex(aucs, "acid", acid)

\* auctions[acid] instanceof Auction
HasAuction(aucs, acid) == AuctionIndex(aucs, acid) # 0

\* isValidAuctionAdSlot
isValidAuctionAdSlot(aucs, acid, adtag) ==
  /\ HasAuction(aucs, acid)
  /\ adtag \in DOMAIN aucs[AuctionIndex(aucs, acid)].adSlots

\* Bid objects of an auction that are not a slot's placeholder
RealBidObjs(auc) ==
  {i \in 1..Len(auc.bidObjs) : auc.bidObjs[i].bidder # DUMMY_BIDDER}

----------------------------------------------------------------------------
(* Logging *)

\* Math.round(100 / loggingPercent)
Lper(loggingPercent) == (200 + loggingPercent) \div (2 * loggingPercent)

\* getCommonLoggingData with ajx fixed to CONFIG_PASS
getCommonLoggingData_AjxPass(st, acid, adtag) ==
  [cid |-> st.config.cid, lper |-> Lper(st.config.loggingPercent),
   ajx |-> CONFIG_PASS, acid |-> acid, supcrid |-> adtag]

\* getCommonLoggingData, the fields the model keeps
getCommonLoggingData(st, acid, adtag) ==
  [cid |-> st.config.cid, lper |-> Lper(st.config.loggingPercent),
   ajx |-> st.config.ajaxState, acid |-> acid, supcrid |-> adtag]

\* firePixel with unshift for push
firePixel_Unshift(st, entry) == [st EXCEPT !.logsQueue = <<entry>> \o @]

\* firePixel
firePixel(st, entry) == [st EXCEPT !.logsQueue = Append(@, entry)]

\* fireAuctionLog without the assignment commonParams.lper = 1 of an RA log
fireAuctionLog_CommonLper(st, acid, adtag, logType, adId) ==
  LET auc == st.auctions[AuctionIndex(st.auctions, acid)]
      common == getCommonLoggingData(st, acid, adtag)
      targeting == auc.adSlots[adtag].targeting
      w == findBidObj(auc, "adId", adId)
  IN IF logType = RA /\ w = 0 THEN st
     ELSE firePixel(st, [lgtp |-> logType, cid |-> common.cid,
                         lper |-> common.lper, ajx |-> common.ajx,
                         acid |-> acid, supcrid |-> adtag,
                         bids |-> IF logType = RA
                                  THEN <<BidLoggingData(auc.bidObjs[w])>>
                                  ELSE <<>>,
                         targ |-> targeting])

\* fireAuctionLog; st is the handlers' view of the state.  Of the bid
\* parameters of the URL the model keeps those of the winning bid of an RA
\* log; targ is the slot's targeting when the log is written.
fireAuctionLog(st, acid, adtag, logType, adId) ==
  LET auc == st.auctions[AuctionIndex(st.auctions, acid)]
      common == getCommonLoggingData(st, acid, adtag)
      targeting == auc.adSlots[adtag].targeting
      w == findBidObj(auc, "adId", adId)
  IN IF logType = RA
     THEN IF w = 0 THEN st
          ELSE firePixel(st, [lgtp |-> RA, cid |-> common.cid, lper |-> 1,
                              ajx |-> common.ajx, acid |-> acid,
                              supcrid |-> adtag,
                              bids |-> <<BidLoggingData(auc.bidObjs[w])>>,
                              targ |-> targeting])
     ELSE firePixel(st, [lgtp |-> logType, cid |-> common.cid,
                         lper |-> common.lper, ajx |-> common.ajx,
                         acid |-> acid, supcrid |-> adtag, bids |-> <<>>,
                         targ |-> targeting])

\* fireApPrLog without the assignment adSlot.logged[logType] = true
fireApPrLog_NoFlag(st, auctionId, adUnitName, logType, r) ==
  LET i == AuctionIndex(st.auctions, auctionId)
      adSlot == st.auctions[i].adSlots[adUnitName]
      cfg == getShouldBeLogged(st.config, logType, r)
      st1 == [st EXCEPT !.config = cfg]
  IN IF cfg.shouldBeLogged[logType] /\ logType \notin adSlot.logged
     THEN fireAuctionLog(st1, auctionId, adUnitName, logType, Undefined)
     ELSE st1

\* fireApPrLog; r is the random draw isSampled would make
fireApPrLog(st, auctionId, adUnitName, logType, r) ==
  LET i == AuctionIndex(st.auctions, auctionId)
      adSlot == st.auctions[i].adSlots[adUnitName]
      cfg == getShouldBeLogged(st.config, logType, r)
      st1 == [st EXCEPT !.config = cfg]
  IN IF cfg.shouldBeLogged[logType] /\ logType \notin adSlot.logged
     THEN [fireAuctionLog(st1, auctionId, adUnitName, logType, Undefined)
             EXCEPT !.auctions[i].adSlots[adUnitName].logged = @ \cup {logType}]
     ELSE st1

\* sendEvent
sendEvent(st, id, adunit, logType, adId, r) ==
  IF ~isValidAuctionAdSlot(st.auctions, id, adunit) THEN st
  ELSE IF logType = RA THEN fireAuctionLog(st, id, adunit, logType, adId)
  ELSE fireApPrLog(st, id, adunit, logType, r)

----------------------------------------------------------------------------
(* Event arguments *)

\* adUnits of AUCTION_INIT, by ad unit code
RECURSIVE SeqsUpTo(_, _)
SeqsUpTo(S, n) ==
  IF n = 0 THEN {<<>>}
  ELSE LET shorter == SeqsUpTo(S, n - 1)
       IN shorter \cup {Append(q, x) : q \in shorter, x \in S}

NoRepeat(q) == \A i, j \in 1..Len(q) : i # j => q[i] # q[j]

AdUnitLists == {q \in SeqsUpTo(AdUnitCodes, 2) : NoRepeat(q)}

\* bids of BID_REQUESTED: every bidder asks with its own bid id
BidderOf(bidId) == IF bidId = "b1" THEN MEDIANET_BIDDER_CODE ELSE "appnexus"

BidRequests ==
  { [bidId |-> b, bidder |-> BidderOf(b), adUnitCode |-> u] :
      b \in BidIds, u \in AdUnitCodes }

BidRequestLists == SeqsUpTo(BidRequests, 2) \ {<<>>}

\* gdpr and uspConsent of BID_REQUESTED
ConsentArgs ==
  { [gdprGiven |-> FALSE, gdprApplies |-> FALSE, consentString |-> Undefined,
     uspConsent |-> Undefined],
    [gdprGiven |-> TRUE, gdprApplies |-> TRUE, consentString |-> "consent",
     uspConsent |-> "1YNN"] }

\* BID_RESPONSE: the ad id stands for the creative and fixes its price
CpmOf(adId) == IF adId = "ad1" THEN 1 ELSE 2

BidResponses ==
  { [auctionId |-> a, requestId |-> q, originalRequestId |-> o, adId |-> d,
     cpm |-> CpmOf(d), width |-> 300, height |-> 250, currency |-> c,
     rejected |-> j] :
      a \in AuctionIds, q \in BidIds, o \in {Undefined} \cup BidIds,
      d \in AdIds, c \in {"USD", "eur"}, j \in BOOLEAN }

\* NO_BID, and the entries of BID_TIMEOUT
BidRefs == { [auctionId |-> a, bidId |-> b] : a \in AuctionIds, b \in BidIds }

TimedOutLists == SeqsUpTo(BidRefs, 2) \ {<<>>}

\* The targeting of one ad unit in SET_TARGETING: hb_adid (or undefined when
\* the key is absent) and the values of all keys that contain "hb_adid"
Targetings ==
  { [set |-> TRUE, hb_adid |-> Undefined, adIds |-> {}],
    [set |-> TRUE, hb_adid |-> "ad1", adIds |-> {"ad1"}],
    [set |-> TRUE, hb_adid |-> "ad2", adIds |-> {"ad1", "ad2"}] }

\* SET_TARGETING: ad unit codes in key order, each with its targeting
TargetingParams ==
  { q \in SeqsUpTo({ [adunit |-> u, targeting |-> t] :
                       u \in AdUnitCodes, t \in Targetings }, 2) \ {<<>>} :
      \A i, j \in 1..Len(q) : i # j => q[i].adunit # q[j].adunit }

\* BID_WON; an event that carries no adId has adId undefined
WonBids ==
  { [auctionId |-> a, adUnitCode |-> u, adId |-> d] :
      a \in AuctionIds, u \in AdUnitCodes, d \in AdIds \cup {Undefined} }

\* Times: Date.now() when BID_WON is handled, timestamp of AUCTION_INIT
WonTimes == {1, 2}
SomeTimes == {1}

----------------------------------------------------------------------------
(* Event handlers, as functions of the state they read and write *)

RECURSIVE addAddSlots(_, _)
addAddSlots(auc, adUnits) ==
  IF adUnits = <<>> THEN auc
  ELSE addAddSlots(addSlot(auc, Head(adUnits)), Tail(adUnits))

auctionInitHandler(aucs, auctionId, adUnits, timestamp, floorData) ==
  LET a1 == IF ~HasAuction(aucs, auctionId)
            THEN Append(aucs, [Auction(auctionId)
                                 EXCEPT !.auctionInitTime = timestamp])
            ELSE aucs
      a2 == [a1 EXCEPT ![AuctionIndex(a1, auctionId)] = addAddSlots(@, adUnits)]
  IN IF floorData # Undefined
     THEN [a2 EXCEPT ![AuctionIndex(a2, auctionId)].floorData = floorData]
     ELSE a2

\* bids.forEach of bidRequestedHandler; a medianet bid for an ad unit code
\* that is no slot of the auction raises a TypeError after the bid was added,
\* which ends the loop and the handler
RECURSIVE addBidRequests(_, _)
addBidRequests(auc, bids) ==
  IF bids = <<>> THEN auc
  ELSE LET bid == Head(bids)
           a1 == addBid(auc, Bid(bid.bidId, bid.bidder, bid.adUnitCode))
       IN IF bid.bidder # MEDIANET_BIDDER_CODE
          THEN addBidRequests(a1, Tail(bids))
          ELSE IF bid.adUnitCode \in DOMAIN a1.adSlots
          THEN addBidRequests(
                 [a1 EXCEPT !.adSlots[bid.adUnitCode].medianetPresent = 1],
                 Tail(bids))
          ELSE a1

\* bidRequestedHandler with the consent fields written before the test for
\* a recorded auction
bidRequestedHandler_ConsentFirst(st, auctionId, bids, consent) ==
  LET applies == consent.gdprGiven /\ consent.gdprApplies
      cfg == [st.config EXCEPT
                !.gdprApplies = IF applies THEN "true" ELSE "false",
                !.gdprConsent =
                   IF applies
                   THEN (IF Truthy(consent.consentString)
                         THEN consent.consentString ELSE "")
                   ELSE @,
                !.uspConsent = IF Truthy(@) THEN @ ELSE consent.uspConsent]
  IN IF ~HasAuction(st.auctions, auctionId) THEN [st EXCEPT !.config = cfg]
     ELSE [st EXCEPT
             !.config = cfg,
             !.auctions[AuctionIndex(st.auctions, auctionId)] =
                addBidRequests(@, bids)]

bidRequestedHandler(st, auctionId, bids, consent) ==
  IF ~HasAuction(st.auctions, auctionId) THEN st
  ELSE LET applies == consent.gdprGiven /\ consent.gdprApplies
           cfg == [st.config EXCEPT
                     !.gdprApplies = IF applies THEN "true" ELSE "false",
                     !.gdprConsent =
                        IF applies
                        THEN (IF Truthy(consent.consentString)
                              THEN consent.consentString ELSE "")
                        ELSE @,
                     !.uspConsent = IF Truthy(@) THEN @ ELSE consent.uspConsent]
       IN [st EXCEPT
             !.config = cfg,
             !.auctions[AuctionIndex(st.auctions, auctionId)] =
                addBidRequests(@, bids)]

\* String.prototype.toUpperCase on the currency codes of the model
toUpperCase(c) == IF c = "usd" THEN "USD" ELSE IF c = "eur" THEN "EUR" ELSE c

\* exchangeCurrency(price, from, 'USD'): the host's convertCurrency either
\* converts (the model's rate is 2) or throws, and then the price is kept
exchangeCurrency(price, from) == {price, 2 * price}

\* bidResponseHandler; cpmUsd is what exchangeCurrency returns when called
bidResponseHandler(aucs, bid, cpmUsd) ==
  IF ~HasAuction(aucs, bid.auctionId) THEN aucs
  ELSE
    LET i == AuctionIndex(aucs, bid.auctionId)
        auc == aucs[i]
        reqId == IF Truthy(bid.originalRequestId) THEN bid.originalRequestId
                 ELSE bid.requestId
        r == findReqBid(auc, reqId)
        o == findBidObj(auc, "bidId", bid.requestId)
        isBidOverridden == o # 0 /\ auc.bidObjs[o].status # BID_SUCCESS
        currency == IF Truthy(bid.currency) THEN toUpperCase(bid.currency) ELSE ""
    IN IF r = 0 THEN aucs
       ELSE
         LET bidObj == [auc.bidReqs[r] EXCEPT
                          !.cpm = IF currency # "USD" THEN cpmUsd ELSE bid.cpm,
                          !.width = bid.width, !.height = bid.height,
                          !.originalRequestId = bid.originalRequestId,
                          !.requestId = bid.requestId,
                          !.adId = bid.adId, !.currency = currency,
                          !.status = IF bid.rejected THEN BID_FLOOR_REJECTED
                                     ELSE BID_SUCCESS]
         IN [aucs EXCEPT ![i] = IF isBidOverridden
                                THEN [auc EXCEPT !.bidObjs[o] = bidObj]
                                ELSE addBidObj(auc, bidObj)]

\* noBidResponseHandler without the test of bidReq.used
noBidResponseHandler_IgnoresUsed(aucs, auctionId, bidId) ==
  IF ~HasAuction(aucs, auctionId) THEN aucs
  ELSE
    LET i == AuctionIndex(aucs, auctionId)
        auc == aucs[i]
        r == findReqBid(auc, bidId)
    IN IF hasEnded(auc) THEN aucs
       ELSE IF r = 0 THEN aucs
       ELSE [aucs EXCEPT
               ![i] = addBidObj(auc, [auc.bidReqs[r] EXCEPT !.status = BID_NOBID])]

noBidResponseHandler(aucs, auctionId, bidId) ==
  IF ~HasAuction(aucs, auctionId) THEN aucs
  ELSE
    LET i == AuctionIndex(aucs, auctionId)
        auc == aucs[i]
        r == findReqBid(auc, bidId)
    IN IF hasEnded(auc) THEN aucs
       ELSE IF r = 0 \/ auc.bidReqs[r].used THEN aucs
       ELSE [aucs EXCEPT
               ![i] = addBidObj(auc, [auc.bidReqs[r] EXCEPT !.status = BID_NOBID])]

RECURSIVE bidTimeoutHandler(_, _)
bidTimeoutHandler(aucs, timedOutBids) ==
  IF timedOutBids = <<>> THEN aucs
  ELSE
    LET t == Head(timedOutBids)
        i == AuctionIndex(aucs, t.auctionId)
        r == IF i = 0 THEN 0 ELSE findReqBid(aucs[i], t.bidId)
        next == IF i = 0 \/ r = 0 THEN aucs
                ELSE IF aucs[i].bidReqs[r].used THEN aucs
                ELSE [aucs EXCEPT
                        ![i] = addBidObj(@, [aucs[i].bidReqs[r]
                                               EXCEPT !.status = BID_TIMEOUT])]
    IN bidTimeoutHandler(next, Tail(timedOutBids))

auctionEndHandler(aucs, auctionId) ==
  IF ~HasAuction(aucs, auctionId) THEN aucs
  ELSE [aucs EXCEPT ![AuctionIndex(aucs, auctionId)].status = AUCTION_COMPLETED]

\* The body of the inner loop of setTargetingHandler for one ad unit of the
\* event and one auction that has a slot of that code
targetSlot(st, i, adunit, targeting, r) ==
  LET auc == st.auctions[i]
      objs == auc.bidObjs
      inTargeting(k) == objs[k].adId \in targeting.adIds
      winners == {k \in 1..Len(objs) :
                    inTargeting(k) /\ objs[k].adId = targeting.hb_adid}
      hasWinner == winners # {}
      winningBid == objs[CHOOSE k \in winners : \A m \in winners : m <= k]
      marked == [k \in 1..Len(objs) |->
                   IF inTargeting(k) THEN [objs[k] EXCEPT !.iwb = 1] ELSE objs[k]]
      dummies == [k \in 1..Len(objs) |->
                    IF marked[k].bidder = DUMMY_BIDDER /\ marked[k].adUnitCode = adunit
                    THEN [marked[k] EXCEPT
                            !.iwb = IF targeting.adIds = {} THEN 0 ELSE 1,
                            !.width = IF hasWinner THEN winningBid.width ELSE UndefNum,
                            !.height = IF hasWinner THEN winningBid.height ELSE UndefNum]
                    ELSE marked[k]]
      st1 == [st EXCEPT !.auctions[i].adSlots[adunit].targeting = targeting,
                        !.auctions[i].bidObjs = dummies]
  IN sendEvent(st1, auc.acid, adunit, APPR, Undefined, r)

\* for (const auctionId of Object.keys(auctions)), from the i-th auction on
RECURSIVE targetAuctions(_, _, _, _, _)
targetAuctions(st, i, adunit, targeting, r) ==
  IF i > Len(st.auctions) THEN st
  ELSE IF adunit \notin DOMAIN st.auctions[i].adSlots
  THEN targetAuctions(st, i + 1, adunit, targeting, r)
  ELSE targetAuctions(targetSlot(st, i, adunit, targeting, r), i + 1,
                      adunit, targeting, r)

RECURSIVE setTargetingHandler(_, _, _)
setTargetingHandler(st, params, r) ==
  IF params = <<>> THEN st
  ELSE setTargetingHandler(
         targetAuctions(st, 1, Head(params).adunit, Head(params).targeting, r),
         Tail(params), r)

\* bidWonHandler with the event names of its two errors exchanged
bidWonHandler_ErrorsExchanged(st, bid, page, t) ==
  LET i == AuctionIndex(st.auctions, bid.auctionId)
      o == IF i = 0 THEN 0 ELSE findBidObj(st.auctions[i], "adId", bid.adId)
  IN IF i = 0
     THEN [st EXCEPT !.errorQueue = ErrorLoggerSend(@,
             ErrorLogger(ERROR_WINNING_BID_ABSENT, st.config, page))]
     ELSE IF o = 0
     THEN [st EXCEPT !.errorQueue = ErrorLoggerSend(@,
             ErrorLogger(ERROR_WINNING_AUCTION_MISSING, st.config, page))]
     ELSE sendEvent([st EXCEPT !.auctions[i].bidWonTime = t,
                               !.auctions[i].bidObjs[o].winner = 1],
                    bid.auctionId, bid.adUnitCode, RA,
                    st.auctions[i].bidObjs[o].adId, 0)

\* bidWonHandler; page is pageDetails, t is Date.now()
bidWonHandler(st, bid, page, t) ==
  LET i == AuctionIndex(st.auctions, bid.auctionId)
      o == IF i = 0 THEN 0 ELSE findBidObj(st.auctions[i], "adId", bid.adId)
  IN IF i = 0
     THEN [st EXCEPT !.errorQueue = ErrorLoggerSend(@,
             ErrorLogger(ERROR_WINNING_AUCTION_MISSING, st.config, page))]
     ELSE IF o = 0
     THEN [st EXCEPT !.errorQueue = ErrorLoggerSend(@,
             ErrorLogger(ERROR_WINNING_BID_ABSENT, st.config, page))]
     ELSE sendEvent([st EXCEPT !.auctions[i].bidWonTime = t,
                               !.auctions[i].bidObjs[o].winner = 1],
                    bid.auctionId, bid.adUnitCode, RA,
                    st.auctions[i].bidObjs[o].adId, 0)

----------------------------------------------------------------------------
(* The adapter as a state machine *)

AdapterInit ==
  /\ auctions = <<>>
  /\ config = NoConfig
  /\ pageDetails = NoPageDetails
  /\ logsQueue = <<>>
  /\ errorQueue = <<>>
  /\ analyticsEnabled = FALSE
  /\ ajaxPending = 0
  /\ staleAjax = 0
  /\ originEnableCalls = 0
  /\ cidErrors = 0
  /\ ignored = FALSE

SmaatoIdle == smInput = [op |-> "none"] /\ smOutput = [op |-> "none"]

Init == AdapterInit /\ SmaatoIdle /\ callsLeft = MaxSteps

\* The handlers' view of the module-level state
State ==
  [auctions |-> auctions, config |-> config, logsQueue |-> logsQueue,
   errorQueue |-> errorQueue]

\* One more call on the adapter, within the model's bound
Step == callsLeft > 0 /\ callsLeft' = callsLeft - 1

\* medianetAnalytics.track: config.debug is read first, so events are only
\* handled once a config exists; st is the state the handler leaves and
\* unrecorded tells whether the event named no recorded auction or slot
track(st, unrecorded) ==
  /\ Step
  /\ config.exists
  /\ UNCHANGED <<pageDetails, analyticsEnabled, ajaxPending, staleAjax,
                 originEnableCalls, cidErrors, smInput, smOutput>>
  /\ ignored' = unrecorded
  /\ \E after \in {st} :
       /\ auctions' = after.auctions
       /\ config' = after.config
       /\ logsQueue' = after.logsQueue
       /\ errorQueue' = after.errorQueue

\* The test of enableAnalytics without !configuration.options.cid
cidMissing_OptionsOnly(configuration) ==
  ~configuration.given \/ ~configuration.options

\* The test of enableAnalytics that rejects the configuration
cidMissing(configuration) ==
  ~configuration.given \/ ~configuration.options \/ ~Truthy(configuration.cid)

\* medianetAnalytics.enableAnalytics(configuration) on a page at url
enableAnalytics(configuration, url) ==
  IF cidMissing(configuration)
  THEN /\ Step
       /\ cidErrors' = cidErrors + 1
       /\ ignored' = FALSE
       /\ UNCHANGED <<auctions, config, pageDetails, logsQueue, errorQueue,
                      analyticsEnabled, ajaxPending, staleAjax,
                      originEnableCalls, smInput, smOutput>>
  ELSE /\ Step
       /\ analyticsEnabled' = TRUE
       /\ pageDetails' = PageDetail(url)
       /\ config' = init(Configure(configuration.cid), PageDetail(url))
       /\ ajaxPending' = IF initStartsFetch(PageDetail(url)) THEN 1 ELSE 0
       /\ staleAjax' = staleAjax + ajaxPending
       /\ originEnableCalls' = originEnableCalls + 1
       /\ ignored' = FALSE
       /\ UNCHANGED <<auctions, logsQueue, errorQueue, cidErrors,
                      smInput, smOutput>>

\* The success callback of the config fetch, bound to the Configure that
\* started it: the current one, or (stale) one that enableAnalytics replaced
ajaxSuccess(response, stale) ==
  /\ IF stale THEN staleAjax > 0 ELSE ajaxPending > 0
  /\ staleAjax' = IF stale THEN staleAjax - 1 ELSE staleAjax
  /\ ajaxPending' = IF stale THEN ajaxPending ELSE 0
  /\ config' = IF stale THEN config ELSE parseResponse(config, response)
  /\ errorQueue' =
       IF ~parseThrows(response) THEN errorQueue
       ELSE ErrorLoggerSend(errorQueue,
              ErrorLogger(ERROR_CONFIG_JSON_PARSE, config, pageDetails))
  /\ Step
  /\ ignored' = FALSE
  /\ UNCHANGED <<auctions, pageDetails, logsQueue, analyticsEnabled,
                 originEnableCalls, cidErrors, smInput, smOutput>>

\* The error callback of the config fetch
ajaxError(stale) ==
  /\ IF stale THEN staleAjax > 0 ELSE ajaxPending > 0
  /\ staleAjax' = IF stale THEN staleAjax - 1 ELSE staleAjax
  /\ ajaxPending' = IF stale THEN ajaxPending ELSE 0
  /\ config' = IF stale THEN config ELSE errorFetch(config)
  /\ errorQueue' = ErrorLoggerSend(errorQueue,
                     ErrorLogger(ERROR_CONFIG_FETCH, config, pageDetails))
  /\ Step
  /\ ignored' = FALSE
  /\ UNCHANGED <<auctions, pageDetails, logsQueue, analyticsEnabled,
                 originEnableCalls, cidErrors, smInput, smOutput>>

AUCTION_INIT(auctionId, adUnits, timestamp, floorData) ==
  track([State EXCEPT
           !.auctions = auctionInitHandler(@, auctionId, adUnits, timestamp,
                                           floorData)],
        FALSE)

BID_REQUESTED(auctionId, bids, consent) ==
  track(bidRequestedHandler(State, auctionId, bids, consent),
        ~HasAuction(auctions, auctionId))

BID_RESPONSE(bid, cpmUsd) ==
  track([State EXCEPT !.auctions = bidResponseHandler(@, bid, cpmUsd)],
        ~HasAuction(auctions, bid.auctionId))

NO_BID(ref) ==
  track([State EXCEPT
           !.auctions = noBidResponseHandler(@, ref.auctionId, ref.bidId)],
        ~HasAuction(auctions, ref.auctionId))

BID_TIMEOUT_EVENT(timedOutBids) ==
  track([State EXCEPT !.auctions = bidTimeoutHandler(@, timedOutBids)],
        \A k \in 1..Len(timedOutBids) :
          ~HasAuction(auctions, timedOutBids[k].auctionId))

AUCTION_END(auctionId) ==
  track([State EXCEPT !.auctions = auctionEndHandler(@, auctionId)],
        ~HasAuction(auctions, auctionId))

SET_TARGETING(params, r) ==
  track(setTargetingHandler(State, params, r),
        \A k \in 1..Len(params) : \A i \in 1..Len(auctions) :
          params[k].adunit \notin DOMAIN auctions[i].adSlots)

BID_WON(bid, t) ==
  track(bidWonHandler(State, bid, pageDetails, t), FALSE)

\* medianetAnalytics.clearlogsQueue
clearlogsQueue ==
  /\ Step
  /\ logsQueue' = <<>>
  /\ errorQueue' = <<>>
  /\ auctions' = <<>>
  /\ ignored' = FALSE
  /\ UNCHANGED <<config, pageDetails, analyticsEnabled, ajaxPending, staleAjax,
                 originEnableCalls, cidErrors, smInput, smOutput>>

----------------------------------------------------------------------------
(* The smaato bid adapter *)

SMAATO_ENDPOINT == "https://prebid-test.smaatolabs.net/bidder"
CLIENT == "prebid/js/$prebid.version$_0.1"

\* A JavaScript value: its type (null has a type of its own here, although
\* typeof null is 'object') and its text
JsUndefined == [t |-> "undefined", v |-> ""]
JsNull == [t |-> "null", v |-> ""]
JsString(s) == [t |-> "string", v |-> s]
JsNumber(s) == [t |-> "number", v |-> s]
JsBoolean(b) == [t |-> "boolean", v |-> IF b THEN "true" ELSE "false"]

\* Whether a || b takes a, and a && b goes on to b
JsTruthy(x) ==
  /\ x.t # "undefined"
  /\ x.v # ""
  /\ ~(x.t = "number" /\ x.v = "0")
  /\ ~(x.t = "boolean" /\ x.v = "false")

\* JSON.stringify of a property: one whose value is undefined is left out
JsAbsent == [t |-> "absent", v |-> ""]
stringify(x) == IF x.t = "undefined" THEN JsAbsent ELSE x

\* bid.params: missing, null, a string, or an object with the properties
\* publisherId, adspaceId and endpoint
NoProps ==
  [publisherId |-> JsUndefined, adspaceId |-> JsUndefined, endpoint |-> JsUndefined]

SmParams ==
  { [kind |-> k, props |-> NoProps] : k \in {"undefined", "null", "string"} }
  \cup
  { [kind |-> "object",
     props |-> [publisherId |-> p, adspaceId |-> a, endpoint |-> e]] :
      p \in {JsUndefined, JsString("pub1"), JsNumber("7")},
      a \in {JsUndefined, JsString("space1"), JsNumber("7")},
      e \in {JsUndefined, JsString(""), JsString("https://alt.example/bidder")} }

\* What utils.getAdUnitSizes(br) returns: the sizes of the ad unit, as [w, h]
SmSizeLists == { <<(<<300, 250>>)>>, <<(<<320, 50>>), (<<300, 250>>)>> }

SmBids ==
  { [bidId |-> b, sizes |-> z, params |-> p] :
      b \in BidIds, z \in SmSizeLists, p \in SmParams }

\* typeof bid.params
typeofParams(params) ==
  IF params.kind = "undefined" THEN "undefined"
  ELSE IF params.kind = "string" THEN "string"
  ELSE "object"

\* spec.isBidRequestValid: what it returns, or that it threw (reading a
\* property of null raises a TypeError)
isBidRequestValid(bid) ==
  IF typeofParams(bid.params) # "object" THEN [threw |-> FALSE, value |-> FALSE]
  ELSE IF bid.params.kind = "null" THEN [threw |-> TRUE, value |-> FALSE]
  ELSE [threw |-> FALSE,
        value |-> /\ bid.params.props.publisherId.t = "string"
                  /\ bid.params.props.adspaceId.t = "string"]

\* utils.getAdUnitSizes(br)
getAdUnitSizes(br) == br.sizes

\* parseSizes with the two entries of a size exchanged
parseSizes_Exchanged(sizes) ==
  [i \in 1..Len(sizes) |-> [w |-> sizes[i][2], h |-> sizes[i][1]]]

\* parseSizes
parseSizes(sizes) ==
  [i \in 1..Len(sizes) |-> [w |-> sizes[i][1], h |-> sizes[i][2]]]

\* The body of validBidRequests.map in buildOpenRtbBidRequestPayload
Imp(br) ==
  LET sizes == parseSizes(getAdUnitSizes(br))
  IN [id |-> br.bidId,
      banner |-> [w |-> sizes[1].w, h |-> sizes[1].h, format |-> sizes],
      tagid |-> stringify(br.params.props.adspaceId)]

\* bidderRequest.gdprConsent: missing, null, or an object with gdprApplies
NoGdprConsent == [kind |-> "undefined", gdprApplies |-> JsUndefined]
GdprConsent(applies) == [kind |-> "object", gdprApplies |-> applies]
GdprConsents ==
  {NoGdprConsent, [kind |-> "null", gdprApplies |-> JsUndefined]}
  \cup {GdprConsent(x) : x \in {JsUndefined, JsBoolean(TRUE), JsBoolean(FALSE),
                                JsNumber("1"), JsNumber("0")}}

\* bidderRequest.uspConsent
UspConsents == {JsUndefined, JsNull, JsString(""), JsString("1YNN")}

\* What config.getConfig('coppa') returns
Coppas == {JsUndefined, JsBoolean(TRUE), JsBoolean(FALSE), JsNumber("1"),
           JsString("true")}

\* bidderRequest: the auction id, gdprConsent and uspConsent
BidderRequests ==
  { [auctionId |-> a, gdprConsent |-> g, uspConsent |-> u] :
      a \in AuctionIds,
      g \in {NoGdprConsent, GdprConsent(JsBoolean(FALSE)), GdprConsent(JsBoolean(TRUE))},
      u \in {JsUndefined, JsString("1YNN")} }

\* The bidder requests that differ in consent only
ConsentBidderRequests ==
  { [auctionId |-> "a1", gdprConsent |-> g, uspConsent |-> u] :
      g \in GdprConsents, u \in UspConsents }

\* regs.ext.gdpr: bidderRequest.gdprConsent && gdprConsent.gdprApplies ? 1 : 0
regsGdpr(bidderRequest) ==
  IF /\ bidderRequest.gdprConsent.kind = "object"
     /\ JsTruthy(bidderRequest.gdprConsent.gdprApplies)
  THEN 1 ELSE 0

\* regs.coppa by truthiness
regsCoppa_Truthy(coppa) == IF JsTruthy(coppa) THEN 1 ELSE 0

\* regs.coppa: config.getConfig('coppa') === true ? 1 : 0
regsCoppa(coppa) == IF coppa = JsBoolean(TRUE) THEN 1 ELSE 0

\* regs.ext.us_privacy in the serialized request: set by deepSetValue when
\* uspConsent !== undefined, and absent otherwise
regsUsPrivacy(bidderRequest) ==
  IF bidderRequest.uspConsent # JsUndefined THEN bidderRequest.uspConsent
  ELSE JsAbsent

\* buildOpenRtbBidRequestPayload: the request that is serialized, without
\* the properties read from window, navigator and screen; coppa is what
\* config.getConfig('coppa') returns
buildOpenRtbBidRequestPayload(validBidRequests, bidderRequest, coppa) ==
  [id |-> bidderRequest.auctionId,
   at |-> 1,
   imp |-> [i \in 1..Len(validBidRequests) |-> Imp(validBidRequests[i])],
   cur |-> <<"USD">>,
   publisherId |-> stringify(validBidRequests[1].params.props.publisherId),
   coppa |-> regsCoppa(coppa),
   gdpr |-> regsGdpr(bidderRequest),
   us_privacy |-> regsUsPrivacy(bidderRequest),
   client |-> CLIENT]

\* spec.buildRequests: the server request, or that it threw (an empty list
\* has no first request to read params from)
buildRequests(validBidRequests, bidderRequest, coppa) ==
  IF validBidRequests = <<>> THEN [threw |-> TRUE]
  ELSE [threw |-> FALSE,
        method |-> "POST",
        url |-> IF JsTruthy(validBidRequests[1].params.props.endpoint)
                THEN validBidRequests[1].params.props.endpoint.v
                ELSE SMAATO_ENDPOINT,
        data |-> buildOpenRtbBidRequestPayload(validBidRequests, bidderRequest, coppa),
        customHeaders |-> [client |-> CLIENT,
                           sessionId |-> bidderRequest.auctionId]]

\* The requests the host passes to buildRequests: those isBidRequestValid
\* accepted
ValidBidRequests ==
  {b \in SmBids : b.params.kind = "object" /\ isBidRequestValid(b).value}

\* Bid ids are unique within a call
ValidBidRequestLists ==
  {q \in SeqsUpTo(ValidBidRequests, 2) :
     \A i, j \in 1..Len(q) : i # j => q[i].bidId # q[j].bidId}

\* A call of spec.isBidRequestValid
CallIsBidRequestValid(bid) ==
  /\ smInput' = [op |-> "isBidRequestValid", bid |-> bid]
  /\ smOutput' = isBidRequestValid(bid)
  /\ UNCHANGED adapterVars

\* A call of spec.buildRequests, with the host config's coppa as it is then
CallBuildRequests(validBidRequests, bidderRequest, coppa) ==
  /\ smInput' = [op |-> "buildRequests", validBidRequests |-> validBidRequests,
                 bidderRequest |-> bidderRequest, coppa |-> coppa]
  /\ smOutput' = buildRequests(validBidRequests, bidderRequest, coppa)
  /\ UNCHANGED adapterVars

\* One valid bid request
OneValidBidRequest ==
  [bidId |-> "b1", sizes |-> <<(<<300, 250>>)>>,
   params |-> [kind |-> "object",
               props |-> [publisherId |-> JsString("pub1"),
                          adspaceId |-> JsString("space1"),
                          endpoint |-> JsUndefined]]]

NextSmaato ==
  \/ \E bid \in SmBids : CallIsBidRequestValid(bid)
  \/ \E vs \in ValidBidRequestLists, br \in BidderRequests :
       CallBuildRequests(vs, br, JsUndefined)
  \/ \E br \in ConsentBidderRequests, coppa \in Coppas :
       CallBuildRequests(<<OneValidBidRequest>>, br, coppa)

SpecSmaato == Init /\ [][NextSmaato]_vars

\* The time to live of a bid, in seconds, when the response has no
\* X-SMT-Expires header
DEFAULT_TTL == 300

\* What serverResponse.headers.get('X-SMT-ADTYPE') returns
SmAdTypes == {JsNull, JsString("Img"), JsString("Richmedia"), JsString("Video"),
              JsString("Native")}

\* What serverResponse.headers.get('X-SMT-Expires') returns, with the number
\* that the subtraction makes of it (null gives 0; undefined gives NaN and
\* is never subtracted)
SmExpires == {[t |-> "undefined", n |-> 0], [t |-> "null", n |-> 0],
              [t |-> "string", n |-> 1060500]}

\* Date.now()
SmNows == {1000000, 1000999}

\* b.adm parsed: an image creative, or a rich media creative and its content
ImageAdm == [kind |-> "image", content |-> "https://img.example/a.png"]
RichmediaAdm(content) == [kind |-> "richmedia", content |-> content]

\* createImgAd: the markup, or that it threw (adm has no image)
createImgAd(adm) ==
  IF adm.kind # "image" THEN [threw |-> TRUE, ad |-> ""]
  ELSE [threw |-> FALSE,
        ad |-> "<div><a><img src=\"" \o adm.content \o "\"/></a></div>"]

\* createRichmediaAd: richmedia.mediadata.content, or that it threw (adm has
\* no richmedia)
createRichmediaAd(adm) ==
  IF adm.kind # "richmedia" THEN [threw |-> TRUE, ad |-> ""]
  ELSE [threw |-> FALSE, ad |-> adm.content]

\* The bids of a seatbid: impid, price (UndefNum when missing), dealid and adm
SmResponseBids ==
  { [impid |-> "b1", price |-> 150, dealid |-> "deal1", adm |-> ImageAdm],
    [impid |-> "b2", price |-> UndefNum, dealid |-> Undefined,
     adm |-> RichmediaAdm("<div>ad</div>")],
    [impid |-> "b3", price |-> 0, dealid |-> "", adm |-> RichmediaAdm("")] }

\* serverResponse.body: empty (no content), or an object with cur and,
\* unless it carries none, seatbid, a list of lists of bids
SmSeatbids ==
  SeqsUpTo(SeqsUpTo(SmResponseBids, 2), 1)
  \cup {<<(<<x>>), (<<y>>)>> : x, y \in SmResponseBids}

SmBodies ==
  { [kind |-> k, hasSeatbid |-> FALSE, seatbid |-> <<>>, cur |-> Undefined] :
      k \in {"undefined", "emptyString"} }
  \cup {[kind |-> "object", hasSeatbid |-> FALSE, seatbid |-> <<>>, cur |-> "USD"]}
  \cup {[kind |-> "object", hasSeatbid |-> TRUE, seatbid |-> sb, cur |-> "USD"] :
          sb \in SmSeatbids}

ServerResponses ==
  { [adType |-> a, expires |-> e, body |-> b] :
      a \in SmAdTypes, e \in SmExpires, b \in SmBodies }

\* ttlSec: 300, or floor((smtExpires - Date.now()) / 1000) when
\* smtExpires !== undefined
ttlSec(smtExpires, now) ==
  IF smtExpires.t # "undefined"
  THEN (smtExpires.n - now) \div 1000   \* Math.floor
  ELSE DEFAULT_TTL

\* The ad of a bid: the switch on smtAdType
createAd(smtAdType, adm) ==
  IF smtAdType = JsString("Img") THEN createImgAd(adm)
  ELSE IF smtAdType = JsString("Richmedia") THEN createRichmediaAd(adm)
  ELSE [threw |-> FALSE, ad |-> ""]

\* The host bid pushed for a seatbid bid b, whose ad is not ''
HostBid(b, ad, ttl, cur) ==
  [requestId |-> b.impid,
   cpm |-> IF b.price = UndefNum \/ b.price = 0 THEN 0 ELSE b.price,
   ad |-> ad,
   ttl |-> ttl,
   dealId |-> IF Truthy(b.dealid) THEN b.dealid ELSE "null",
   netRevenue |-> FALSE,
   currency |-> cur]

\* The bids of the response, all seatbids in one list, in response order
RECURSIVE Flatten(_)
Flatten(seatbid) ==
  IF seatbid = <<>> THEN <<>> ELSE Head(seatbid) \o Flatten(Tail(seatbid))

\* The host bids the two forEach loops push for a list of response bids
RECURSIVE PushBids(_, _, _, _)
PushBids(bs, smtAdType, ttl, cur) ==
  IF bs = <<>> THEN <<>>
  ELSE LET made == createAd(smtAdType, Head(bs).adm)
       IN (IF made.ad # "" THEN <<HostBid(Head(bs), made.ad, ttl, cur)>> ELSE <<>>)
          \o PushBids(Tail(bs), smtAdType, ttl, cur)

\* spec.interpretResponse: the bids it returns, or that it threw (seatbid of
\* a body that has none is undefined, and an adm that is not of the ad type
\* of the header has no creative to read)
interpretResponse(serverResponse, now) ==
  LET res == serverResponse.body
      bs == Flatten(res.seatbid)
  IN IF res.kind # "object" THEN [threw |-> FALSE, bids |-> <<>>]
     ELSE IF ~res.hasSeatbid THEN [threw |-> TRUE, bids |-> <<>>]
     ELSE IF \E i \in 1..Len(bs) : createAd(serverResponse.adType, bs[i].adm).threw
          THEN [threw |-> TRUE, bids |-> <<>>]
     ELSE [threw |-> FALSE,
           bids |-> PushBids(bs, serverResponse.adType,
                             ttlSec(serverResponse.expires, now), res.cur)]

\* A call of spec.interpretResponse at the time now
CallInterpretResponse(serverResponse, now) ==
  /\ smInput' = [op |-> "interpretResponse", serverResponse |-> serverResponse,
                 now |-> now]
  /\ smOutput' = interpretResponse(serverResponse, now)
  /\ UNCHANGED adapterVars

NextResponse ==
  \E r \in ServerResponses, now \in SmNows : CallInterpretResponse(r, now)

SpecResponse == Init /\ [][NextResponse]_vars

----------------------------------------------------------------------------
(* The calls the host makes, and the specifications *)

\* Event arguments of the specification of all handlers: auctions of the ad
\* unit u1, one bid request per BID_REQUESTED, responses in USD that name
\* their request, one timed-out bid per BID_TIMEOUT, one ad unit per
\* SET_TARGETING (u2 is the code of no slot)
NoAdIdTargeting == [set |-> TRUE, hb_adid |-> Undefined, adIds |-> {}]
Ad1Targeting == [set |-> TRUE, hb_adid |-> "ad1", adIds |-> {"ad1"}]

SomeUrls == {u \in PageUrls : u.search = <<>>}
SomeConfigResponses ==
  {x \in ConfigResponses : x.domainPercentage = UndefNum /\ x.urlKey = Undefined
                             /\ x.percentage # 10}
SomeAdUnitLists == {<<"u1">>, <<"u1", "u2">>}
SomeBidRequestLists == {q \in BidRequestLists : Len(q) = 1 /\ q[1].adUnitCode = "u1"}
SomeBidResponses ==
  {b \in BidResponses : /\ b.originalRequestId = Undefined
                         /\ b.currency = "USD" /\ ~b.rejected /\ b.adId = "ad1"}
SomeTimedOutLists == {q \in TimedOutLists : Len(q) = 1}
SomeTargetingParams ==
  { <<[adunit |-> u, targeting |-> t]>> :
      u \in AdUnitCodes, t \in {NoAdIdTargeting, Ad1Targeting} }

Next ==
  \/ \E c \in Configurations, u \in SomeUrls : enableAnalytics(c, u)
  \/ \E resp \in SomeConfigResponses, stale \in BOOLEAN : ajaxSuccess(resp, stale)
  \/ \E stale \in BOOLEAN : ajaxError(stale)
  \/ \E a \in AuctionIds, t \in SomeTimes : AUCTION_INIT(a, <<"u1">>, t, Undefined)
  \/ \E a \in AuctionIds, bs \in SomeBidRequestLists, c \in ConsentArgs :
       BID_REQUESTED(a, bs, c)
  \/ \E b \in SomeBidResponses : \E c \in exchangeCurrency(b.cpm, b.currency) :
       BID_RESPONSE(b, c)
  \/ \E ref \in BidRefs : NO_BID(ref)
  \/ \E ts \in SomeTimedOutLists : BID_TIMEOUT_EVENT(ts)
  \/ \E a \in AuctionIds : AUCTION_END(a)
  \/ \E ps \in SomeTargetingParams, r \in RandomDraws : SET_TARGETING(ps, r)
  \/ \E b \in WonBids, t \in SomeTimes : BID_WON(b, t)
  \/ clearlogsQueue

Spec == Init /\ [][Next]_vars

\* Configuration and targeting: every page URL, a configuration with and
\* one without cid, the answers of the config endpoint that carry at most a
\* percentage, SET_TARGETING for one ad unit or for both
TargetingConfigurations == {c \in Configurations : c.options /\ c.cid # ""}
TargetingConfigResponses ==
  {x \in ConfigResponses : x.urlKey = Undefined /\ x.domainPercentage = UndefNum}
TargetingParamsNoBids ==
  SomeTargetingParams \cup
  {q \in TargetingParams :
     Len(q) = 2 /\ \A k \in 1..Len(q) : q[k].targeting = NoAdIdTargeting}

NextTargeting ==
  \/ \E c \in TargetingConfigurations, u \in PageUrls : enableAnalytics(c, u)
  \/ \E resp \in TargetingConfigResponses, stale \in BOOLEAN :
       ajaxSuccess(resp, stale)
  \/ \E stale \in BOOLEAN : ajaxError(stale)
  \/ \E a \in AuctionIds, us \in SomeAdUnitLists, t \in SomeTimes :
       AUCTION_INIT(a, us, t, Undefined)
  \/ \E ps \in TargetingParamsNoBids, r \in RandomDraws : SET_TARGETING(ps, r)
  \/ clearlogsQueue

\* Every SET_TARGETING of this specification is tried against every step
\* in the properties, so it makes one call less
InitTargeting == AdapterInit /\ SmaatoIdle /\ callsLeft = MaxSteps - 1

SpecTargeting == InitTargeting /\ [][NextTargeting]_vars

\* Winning bids: one auction of one ad unit with one bidder, two calls more
WonUrls == {u \in PageUrls : u.search = <<>> /\ u.hostname = "pub.com"}
WonConfigurations == {c \in Configurations : Truthy(c.cid)}
WonBidRequestLists ==
  { <<[bidId |-> "b1", bidder |-> MEDIANET_BIDDER_CODE, adUnitCode |-> "u1"]>> }
WonBidResponses == {b \in SomeBidResponses \cup
                          {x \in BidResponses : x.adId = "ad2" /\ x.currency = "USD"
                             /\ x.originalRequestId = Undefined /\ ~x.rejected} :
                      b.auctionId = "a1" /\ b.requestId = "b1"}
WonTargetingParams == { <<[adunit |-> "u1", targeting |-> Ad1Targeting]>> }

NextWon ==
  \/ \E c \in WonConfigurations, u \in WonUrls : enableAnalytics(c, u)
  \/ \E t \in SomeTimes : AUCTION_INIT("a1", <<"u1">>, t, Undefined)
  \/ \E bs \in WonBidRequestLists, c \in ConsentArgs : BID_REQUESTED("a1", bs, c)
  \/ \E b \in WonBidResponses : \E c \in exchangeCurrency(b.cpm, b.currency) :
       BID_RESPONSE(b, c)
  \/ \E ref \in {x \in BidRefs : x.auctionId = "a1"} : NO_BID(ref)
  \/ \E ps \in WonTargetingParams, r \in RandomDraws : SET_TARGETING(ps, r)
  \/ \E b \in WonBids, t \in WonTimes : BID_WON(b, t)

InitWon == AdapterInit /\ SmaatoIdle /\ callsLeft = MaxSteps + 2

SpecWon == InitWon /\ [][NextWon]_vars

\* Bid objects: one auction of one ad unit with the requests b1 and b2,
\* responses in USD with and without an originalRequestId, one call more
BidsBidRequestLists ==
  { <<[bidId |-> "b1", bidder |-> BidderOf("b1"), adUnitCode |-> "u1"]>>,
    <<[bidId |-> "b1", bidder |-> BidderOf("b1"), adUnitCode |-> "u1"],
      [bidId |-> "b2", bidder |-> BidderOf("b2"), adUnitCode |-> "u1"]>> }
BidsConsentArgs == {c \in ConsentArgs : ~c.gdprGiven}
BidsBidResponses ==
  {b \in BidResponses :
     /\ b.auctionId = "a1"
     /\ b.currency = "USD"
     /\ b.originalRequestId \in {Undefined, "b1"}
     /\ (b.rejected => b.adId = "ad1")}
BidsBidRefs == {x \in BidRefs : x.auctionId = "a1"}
BidsTimedOutLists ==
  {q \in TimedOutLists :
     /\ \A k \in 1..Len(q) : q[k] \in BidsBidRefs
     /\ (Len(q) = 2 => (q[1].bidId = "b1" /\ q[2].bidId = "b2"))}

NextBids ==
  \/ \E u \in WonUrls : enableAnalytics([given |-> TRUE, options |-> TRUE, cid |-> "cid1"], u)
  \/ \E t \in SomeTimes : AUCTION_INIT("a1", <<"u1">>, t, Undefined)
  \/ \E bs \in BidsBidRequestLists, c \in BidsConsentArgs :
       BID_REQUESTED("a1", bs, c)
  \/ \E b \in BidsBidResponses : \E c \in exchangeCurrency(b.cpm, b.currency) :
       BID_RESPONSE(b, c)
  \/ \E ref \in BidsBidRefs : NO_BID(ref)
  \/ \E ts \in BidsTimedOutLists : BID_TIMEOUT_EVENT(ts)
  \/ AUCTION_END("a1")

InitBids == AdapterInit /\ SmaatoIdle /\ callsLeft = MaxSteps + 1

SpecBids == InitBids /\ [][NextBids]_vars

\* AUCTION_INIT again: an auction of one or two ad units with init times
\* and floor data that differ from call to call, between the other events
\* of the auction (a medianet bid request, its response, the end of the
\* auction, targeting), and a second auction beside it
InitFloorDatas == {fd \in FloorDatas : fd # "floors2"}

NextInit ==
  \/ \E u \in WonUrls :
       enableAnalytics([given |-> TRUE, options |-> TRUE, cid |-> "cid1"], u)
  \/ \E us \in SomeAdUnitLists, t \in WonTimes, fd \in InitFloorDatas :
       AUCTION_INIT("a1", us, t, fd)
  \/ \E t \in SomeTimes : AUCTION_INIT("a2", <<"u1">>, t, Undefined)
  \/ \E bs \in WonBidRequestLists, c \in BidsConsentArgs :
       BID_REQUESTED("a1", bs, c)
  \/ \E b \in {x \in WonBidResponses : x.adId = "ad1"} :
       \E c \in exchangeCurrency(b.cpm, b.currency) : BID_RESPONSE(b, c)
  \/ AUCTION_END("a1")
  \/ \E ps \in WonTargetingParams, r \in RandomDraws : SET_TARGETING(ps, r)

InitInit == AdapterInit /\ SmaatoIdle /\ callsLeft = MaxSteps + 2

SpecInit == InitInit /\ [][NextInit]_vars

----------------------------------------------------------------------------
(* Properties *)

\* The APPR logs in queue for the slot adtag of the auction acid
ApprLogs(queue, acid, adtag) ==
  {i \in 1..Len(queue) : /\ queue[i].lgtp = APPR /\ queue[i].acid = acid
                          /\ queue[i].supcrid = adtag}

\* adSlot.logged[APPR] of a recorded slot
SlotLogged(aucs, acid, adtag) ==
  /\ isValidAuctionAdSlot(aucs, acid, adtag)
  /\ APPR \in aucs[AuctionIndex(aucs, acid)].adSlots[adtag].logged

\* The slots of recorded auctions that a SET_TARGETING with params names
TargetedSlots(aucs, params) ==
  { <<a, params[k].adunit>> : a \in AuctionIds, k \in 1..Len(params) }
  \cap { <<a, u>> \in AuctionIds \X AdUnitCodes : isValidAuctionAdSlot(aucs, a, u) }

\* A step that stores the targeting of params in every recorded slot params
\* names and records no auction, as every SET_TARGETING with params does
\* (tested first in the properties: it is cheaper than the handler)
StoresTargeting(params) ==
  /\ Len(auctions') = Len(auctions)
  /\ errorQueue' = errorQueue
  /\ \A k \in 1..Len(params), i \in 1..Len(auctions) :
       params[k].adunit \in DOMAIN auctions[i].adSlots =>
         auctions'[i].adSlots[params[k].adunit].targeting = params[k].targeting

\* C1: logsQueue never holds more than one APPR log for an (auction, slot).
\* A SET_TARGETING that names a recorded slot whose logged flag is not set
\* appends one APPR log for it and sets the flag when the sampling decision
\* is to log, and appends nothing for it otherwise; one that names a slot
\* whose flag is set appends nothing for it.
C1_AtMostOneApprLog ==
  [][ /\ \A a \in AuctionIds, u \in AdUnitCodes :
           Cardinality(ApprLogs(logsQueue', a, u)) <= 1
      /\ \A ps \in TargetingParamsNoBids : StoresTargeting(ps) =>
           \A r \in RandomDraws : SET_TARGETING(ps, r) =>
             /\ IsPrefix(logsQueue, logsQueue')
             /\ \E named \in {TargetedSlots(auctions, ps)} :
                \E new \in {{s \in named : /\ ~SlotLogged(auctions, s[1], s[2])
                                             /\ SlotLogged(auctions', s[1], s[2])}} :
                  /\ Len(logsQueue') - Len(logsQueue) = Cardinality(new)
                  /\ \A s \in named :
                       /\ SlotLogged(auctions', s[1], s[2]) =
                            (s \in new \/ SlotLogged(auctions, s[1], s[2]))
                       /\ s \in new =>
                            /\ config'.shouldBeLogged[APPR]
                            /\ Cardinality(ApprLogs(logsQueue, s[1], s[2])) = 0
                            /\ Cardinality(ApprLogs(logsQueue', s[1], s[2])) = 1
                       /\ s \notin new =>
                            /\ ApprLogs(logsQueue', s[1], s[2]) =
                                 ApprLogs(logsQueue, s[1], s[2])
                            /\ ~SlotLogged(auctions, s[1], s[2]) =>
                                 ~config'.shouldBeLogged[APPR] ]_vars

\* C1 witness: a slot has its one APPR log, written under another targeting
\* than the slot has now: a later SET_TARGETING named the slot and appended
\* nothing
C1_Witness ==
  \E a \in AuctionIds, u \in AdUnitCodes :
    /\ SlotLogged(auctions, a, u)
    /\ Cardinality(ApprLogs(logsQueue, a, u)) = 1
    /\ \E i \in ApprLogs(logsQueue, a, u) :
         logsQueue[i].targ # auctions[AuctionIndex(auctions, a)].adSlots[u].targeting

\* The RA logs in queue for the slot adtag of the auction acid that report
\* the bid of ad id adId
RaLogs(queue, acid, adtag, adId) ==
  {i \in 1..Len(queue) : /\ queue[i].lgtp = RA /\ queue[i].acid = acid
                          /\ queue[i].supcrid = adtag
                          /\ queue[i].bids[1].adid = adId}

\* C2: a BID_WON for a recorded auction, with the ad id of a bid object of
\* that auction and the code of one of its slots, appends exactly one log to
\* logsQueue, an RA log with lper = 1 that reports that bid as winner, and
\* sets the winner flag of the bid object; whatever the sampling decision,
\* the slot's logged flag and the bid's earlier winner flag are.
C2_BidWonAppendsRaLog ==
  [][ \A b \in WonBids :
        \A i \in {AuctionIndex(auctions, b.auctionId)} \ {0} :
          \A o \in {findBidObj(auctions[i], "adId", b.adId)} \ {0} :
            b.adUnitCode \in DOMAIN auctions[i].adSlots =>
              \A t \in WonTimes : BID_WON(b, t) =>
                /\ Len(logsQueue') = Len(logsQueue) + 1
                /\ IsPrefix(logsQueue, logsQueue')
                /\ logsQueue'[Len(logsQueue')].lgtp = RA
                /\ logsQueue'[Len(logsQueue')].lper = 1
                /\ logsQueue'[Len(logsQueue')].acid = b.auctionId
                /\ logsQueue'[Len(logsQueue')].supcrid = b.adUnitCode
                /\ logsQueue'[Len(logsQueue')].bids =
                     <<[adid |-> b.adId, winner |-> 1]>>
                /\ auctions'[i].bidObjs[o].winner = 1
                /\ errorQueue' = errorQueue ]_vars

\* C2 witness: with a sampling percentage of 50, the APPR log of a slot is
\* followed by two RA logs for the same bid of that slot, whose winner flag
\* is set
C2_Witness ==
  \E a \in AuctionIds, u \in AdUnitCodes, d \in AdIds :
    /\ config.loggingPercent = DEFAULT_LOGGING_PERCENT
    /\ SlotLogged(auctions, a, u)
    /\ Cardinality(RaLogs(logsQueue, a, u, d)) = 2
    /\ \A i \in RaLogs(logsQueue, a, u, d), j \in ApprLogs(logsQueue, a, u) : j < i
    /\ \E o \in RealBidObjs(auctions[AuctionIndex(auctions, a)]) :
         /\ auctions[AuctionIndex(auctions, a)].bidObjs[o].adId = d
         /\ auctions[AuctionIndex(auctions, a)].bidObjs[o].winner = 1

\* What an event that names no recorded auction or slot has to leave alone
NothingRecorded ==
  /\ auctions' = auctions
  /\ config'.gdprApplies = config.gdprApplies
  /\ config'.gdprConsent = config.gdprConsent
  /\ config'.uspConsent = config.uspConsent
  /\ logsQueue' = logsQueue
  /\ errorQueue' = errorQueue

\* C3: a BID_REQUESTED, BID_RESPONSE, NO_BID, BID_TIMEOUT or AUCTION_END
\* whose auction id is no key of the auctions map, and a SET_TARGETING whose
\* ad unit codes are slots of no recorded auction, leave the auctions map,
\* gdprApplies, gdprConsent and uspConsent of the config, logsQueue and
\* errorQueue unchanged.  (Every such step sets the history variable
\* ignored, which is tested first: it is cheaper than the handlers.)
C3_UnknownAuctionIgnored ==
  [][ /\ \A a \in AuctionIds : (ignored' /\ ~HasAuction(auctions, a)) =>
           /\ \A bs \in SomeBidRequestLists, c \in ConsentArgs :
                BID_REQUESTED(a, bs, c) => NothingRecorded
           /\ \A b \in SomeBidResponses :
                b.auctionId = a =>
                  \A c \in exchangeCurrency(b.cpm, b.currency) :
                    BID_RESPONSE(b, c) => NothingRecorded
           /\ \A ref \in BidRefs :
                ref.auctionId = a => (NO_BID(ref) => NothingRecorded)
           /\ \A ts \in SomeTimedOutLists :
                ts[1].auctionId = a => (BID_TIMEOUT_EVENT(ts) => NothingRecorded)
           /\ AUCTION_END(a) => NothingRecorded
      /\ \A ps \in SomeTargetingParams :
           (ignored' /\ \A i \in 1..Len(auctions) :
                          ps[1].adunit \notin DOMAIN auctions[i].adSlots) =>
             \A r \in RandomDraws : SET_TARGETING(ps, r) => NothingRecorded ]_vars

\* C3 witness: an auction with a slot is recorded, consent was stored, a log
\* was written, and the last event named no recorded auction or slot
C3_Witness ==
  /\ ignored
  /\ auctions # <<>>
  /\ logsQueue # <<>>
  /\ config.gdprApplies # Undefined

\* C4: a BID_WON whose auction id is no key of the auctions map appends one
\* entry to errorQueue, of event winning_auction_missing, and leaves
\* logsQueue and the auctions map unchanged.
C4_WonAuctionMissing ==
  [][ \A b \in WonBids : ~HasAuction(auctions, b.auctionId) =>
        \A t \in SomeTimes : BID_WON(b, t) =>
          /\ Len(errorQueue') = Len(errorQueue) + 1
          /\ IsPrefix(errorQueue, errorQueue')
          /\ errorQueue'[Len(errorQueue')].event = ERROR_WINNING_AUCTION_MISSING
          /\ logsQueue' = logsQueue
          /\ auctions' = auctions ]_vars

\* C4 witness: an auction is recorded and the last entry of errorQueue
\* reports a won bid of an auction that is not
C4_Witness ==
  /\ auctions # <<>>
  /\ errorQueue # <<>>
  /\ errorQueue[Len(errorQueue)].event = ERROR_WINNING_AUCTION_MISSING

\* The bid objects of an auction that a BID_RESPONSE wrote
BidResponseObjs(auc) ==
  {k \in RealBidObjs(auc) : auc.bidObjs[k].status \in {BID_SUCCESS, BID_FLOOR_REJECTED}}

\* C5: a BID_WON for a recorded auction whose ad id is the ad id of no bid
\* response recorded in that auction appends one entry to errorQueue, of
\* event winning_bid_absent, appends nothing to logsQueue, changes the
\* winner flag of no bid object of the auction (the placeholder bids of its
\* slots included) and leaves its bidWonTime unchanged.
C5_WonBidAbsent ==
  [][ \A b \in WonBids :
        \A i \in {AuctionIndex(auctions, b.auctionId)} \ {0} :
          (\A k \in BidResponseObjs(auctions[i]) :
             auctions[i].bidObjs[k].adId # b.adId) =>
            \A t \in WonTimes : BID_WON(b, t) =>
              /\ Len(errorQueue') = Len(errorQueue) + 1
              /\ IsPrefix(errorQueue, errorQueue')
              /\ errorQueue'[Len(errorQueue')].event = ERROR_WINNING_BID_ABSENT
              /\ logsQueue' = logsQueue
              /\ \A k \in 1..Len(auctions[i].bidObjs) :
                   auctions'[i].bidObjs[k].winner = auctions[i].bidObjs[k].winner
              /\ auctions'[i].bidWonTime = auctions[i].bidWonTime ]_vars

\* C6: enableAnalytics with no configuration, no options or no cid in the
\* options reports the error once and leaves config, pageDetails, the
\* analyticsEnabled flag, the config fetches in flight, the calls of the
\* host's enableAnalytics, the auctions and both queues unchanged.
C6_CidRequired ==
  [][ \A c \in Configurations :
        (~c.given \/ ~c.options \/ ~Truthy(c.cid)) =>
          \A u \in SomeUrls : enableAnalytics(c, u) =>
            /\ cidErrors' = cidErrors + 1
            /\ UNCHANGED <<config, pageDetails, analyticsEnabled, ajaxPending,
                           staleAjax, originEnableCalls, auctions, logsQueue,
                           errorQueue>> ]_vars

\* C6 witness: the error was reported before any config exists
C6_Witness ==
  /\ cidErrors > 0
  /\ ~config.exists
  /\ ~pageDetails.exists
  /\ ~analyticsEnabled
  /\ originEnableCalls = 0

\* The query string of the page URL has a criterion of this key
CarriesParam(url, key) == \E k \in 1..Len(url.search) : url.search[k].k = key

\* The query string of the page URL gives this key a non-empty value
CarriesValue(url, key) ==
  \E k \in 1..Len(url.search) : url.search[k].k = key /\ url.search[k].v # ""

\* What C7 says of a step, given whether the page is a test page before
\* and after it
TestModeStep(testPageBefore, testPageAfter) ==
  /\ testPageAfter =>
       /\ config'.loggingPercent = 100
       /\ config'.ajaxState = CONFIG_PASS
       /\ ajaxPending' = 0
  /\ testPageBefore =>
       \A ps \in TargetingParamsNoBids : StoresTargeting(ps) =>
         \A r \in RandomDraws : SET_TARGETING(ps, r) =>
           \A s \in TargetedSlots(auctions, ps) :
             /\ SlotLogged(auctions', s[1], s[2])
             /\ Cardinality(ApprLogs(logsQueue', s[1], s[2])) = 1
             /\ ~SlotLogged(auctions, s[1], s[2]) =>
                  Cardinality(ApprLogs(logsQueue, s[1], s[2])) = 0

\* The page URL carries the medianet_test parameter or is on localhost
TestPageAsClaimed(page) ==
  /\ page.exists
  /\ \/ CarriesParam(page.topmostLocation, "medianet_test")
     \/ page.topmostLocation.hostname = "localhost"

\* The page URL gives medianet_test a non-empty value or is on localhost
TestPage(page) ==
  /\ page.exists
  /\ \/ CarriesValue(page.topmostLocation, "medianet_test")
     \/ page.topmostLocation.hostname = "localhost"

\* C7 as claimed: whenever the page URL carries the medianet_test parameter
\* or its hostname is localhost, the config has loggingPercent 100 and
\* ajaxState CONFIG_PASS and no config fetch was started for it, and every
\* SET_TARGETING leaves each recorded slot it names with its logged flag set
\* and exactly one APPR log, appended by this event if the flag was not set.
C7_TestModeAsClaimed ==
  [][TestModeStep(TestPageAsClaimed(pageDetails),
                  TestPageAsClaimed(pageDetails'))]_vars

\* C7 amended: the same, whenever the page URL gives the medianet_test
\* parameter a non-empty value or its hostname is localhost.
C7_TestMode ==
  [][TestModeStep(TestPage(pageDetails), TestPage(pageDetails'))]_vars

\* C7 witness: on a page with medianet_test=1, with no answer of the config
\* endpoint, both slots of an auction have their APPR log
C7_Witness ==
  /\ TestPage(pageDetails)
  /\ pageDetails.topmostLocation.hostname # "localhost"
  /\ \E a \in AuctionIds : \A u \in AdUnitCodes :
       /\ SlotLogged(auctions, a, u)
       /\ Cardinality(ApprLogs(logsQueue, a, u)) = 1

\* C8: a step either appends to logsQueue and to errorQueue (or leaves them
\* alone) or is a clearlogsQueue; a clearlogsQueue empties logsQueue,
\* errorQueue and the auctions map and leaves the config unchanged.
C8_QueuesAppendOnly ==
  [][ /\ \/ IsPrefix(logsQueue, logsQueue') /\ IsPrefix(errorQueue, errorQueue')
         \/ clearlogsQueue
      /\ clearlogsQueue =>
           /\ logsQueue' = <<>>
           /\ errorQueue' = <<>>
           /\ auctions' = <<>>
           /\ config' = config ]_vars

\* C8 witness: both queues and the auctions map are empty although a
\* sampling decision is cached and consent is stored in the config, which
\* takes an auction: a clearlogsQueue removed it
C8_Witness ==
  /\ logsQueue = <<>>
  /\ errorQueue = <<>>
  /\ auctions = <<>>
  /\ APPR \in DOMAIN config.shouldBeLogged
  /\ config.gdprApplies # Undefined

\* C9: isBidRequestValid returns true when bid.params is an object whose
\* publisherId and adspaceId are strings, and returns false, without
\* raising, for every other bid: params missing, null, not an object, or an
\* object without the two strings.
C9_IsBidRequestValid ==
  smInput.op = "isBidRequestValid" =>
    /\ ~smOutput.threw
    /\ smOutput.value =
         (/\ smInput.bid.params.kind = "object"
          /\ smInput.bid.params.props.publisherId.t = "string"
          /\ smInput.bid.params.props.adspaceId.t = "string")

\* C10: for a non-empty list of valid bid requests buildRequests returns one
\* POST request; its payload has one imp per bid request, in order, with the
\* request's bidId as id, its params.adspaceId as tagid, the first of its ad
\* unit sizes as banner w and h and all of them, in order, as format; the
\* payload's id and the X-SMT-SessionId header are bidderRequest.auctionId;
\* the url is params.endpoint of the first bid request when that is a
\* non-empty string and the default endpoint otherwise.
C10_BuildRequests ==
  (smInput.op = "buildRequests" /\ smInput.validBidRequests # <<>>) =>
    LET reqs == smInput.validBidRequests
        endpoint == reqs[1].params.props.endpoint
    IN /\ ~smOutput.threw
       /\ smOutput.method = "POST"
       /\ Len(smOutput.data.imp) = Len(reqs)
       /\ \A i \in 1..Len(reqs) :
            /\ smOutput.data.imp[i].id = reqs[i].bidId
            /\ smOutput.data.imp[i].tagid = reqs[i].params.props.adspaceId
            /\ smOutput.data.imp[i].banner.w = reqs[i].sizes[1][1]
            /\ smOutput.data.imp[i].banner.h = reqs[i].sizes[1][2]
            /\ Len(smOutput.data.imp[i].banner.format) = Len(reqs[i].sizes)
            /\ \A j \in 1..Len(reqs[i].sizes) :
                 smOutput.data.imp[i].banner.format[j] =
                   [w |-> reqs[i].sizes[j][1], h |-> reqs[i].sizes[j][2]]
       /\ smOutput.data.id = smInput.bidderRequest.auctionId
       /\ smOutput.customHeaders.sessionId = smInput.bidderRequest.auctionId
       /\ smOutput.url = IF endpoint.t = "string" /\ endpoint.v # ""
                         THEN endpoint.v ELSE SMAATO_ENDPOINT

\* C10 witness: buildRequests returned the request of two bid requests of
\* different sizes, the first with two sizes and an endpoint of its own
C10_Witness ==
  /\ smInput.op = "buildRequests"
  /\ Len(smInput.validBidRequests) = 2
  /\ Len(smInput.validBidRequests[1].sizes) = 2
  /\ smInput.validBidRequests[1].sizes # smInput.validBidRequests[2].sizes
  /\ JsTruthy(smInput.validBidRequests[1].params.props.endpoint)
  /\ ~smOutput.threw
  /\ smOutput.url # SMAATO_ENDPOINT

\* C11: in the payload of buildRequests regs.ext.gdpr is 1 when
\* bidderRequest.gdprConsent is an object whose gdprApplies is truthy and 0
\* otherwise; regs.ext.us_privacy is absent when bidderRequest.uspConsent is
\* undefined and is uspConsent otherwise; regs.coppa is 1 when the host
\* config's coppa is the boolean true and 0 otherwise.
C11_Regs ==
  (smInput.op = "buildRequests" /\ smInput.validBidRequests # <<>>) =>
    LET consent == smInput.bidderRequest.gdprConsent
        usp == smInput.bidderRequest.uspConsent
        applies == /\ consent.kind \notin {"undefined", "null"}
                   /\ consent.gdprApplies.t # "undefined"
                   /\ consent.gdprApplies \notin {JsBoolean(FALSE), JsNumber("0"),
                                                 JsString(""), JsNull}
    IN /\ smOutput.data.gdpr = (IF applies THEN 1 ELSE 0)
       /\ (smOutput.data.us_privacy = JsAbsent) = (usp.t = "undefined")
       /\ usp.t # "undefined" => smOutput.data.us_privacy = usp
       /\ smOutput.data.coppa =
            (IF smInput.coppa.t = "boolean" /\ smInput.coppa.v = "true"
             THEN 1 ELSE 0)

\* C11 witness: a request was built with gdpr applying by a number, a
\* us_privacy string and a coppa that is truthy but not the boolean true
C11_Witness ==
  /\ smInput.op = "buildRequests"
  /\ smInput.bidderRequest.gdprConsent.gdprApplies = JsNumber("1")
  /\ smInput.coppa = JsString("true")
  /\ smOutput.data.gdpr = 1
  /\ smOutput.data.us_privacy = JsString("1YNN")
  /\ smOutput.data.coppa = 0

\* C12: interpretResponse returns, without raising, one host bid per
\* seatbid bid, in response order, when the X-SMT-ADTYPE header is Img or
\* Richmedia, with requestId = impid, cpm = price or 0, dealId = dealid or
\* null, netRevenue false and currency = the response's cur; it returns the
\* empty list for every other ad type, and when the body is empty or
\* carries no seatbid.
C12_InterpretResponse ==
  smInput.op = "interpretResponse" =>
    LET res == smInput.serverResponse.body
        bs == Flatten(res.seatbid)
    IN /\ ~smOutput.threw
       /\ IF res.kind # "object" \/ ~res.hasSeatbid THEN smOutput.bids = <<>>
          ELSE IF smInput.serverResponse.adType \in {JsString("Img"), JsString("Richmedia")}
          THEN /\ Len(smOutput.bids) = Len(bs)
               /\ \A i \in 1..Len(bs) :
                    /\ smOutput.bids[i].requestId = bs[i].impid
                    /\ smOutput.bids[i].cpm = (IF bs[i].price > 0 THEN bs[i].price ELSE 0)
                    /\ smOutput.bids[i].dealId =
                         (IF bs[i].dealid \in {Undefined, ""} THEN "null" ELSE bs[i].dealid)
                    /\ smOutput.bids[i].netRevenue = FALSE
                    /\ smOutput.bids[i].currency = res.cur
          ELSE smOutput.bids = <<>>

\* C13: every bid interpretResponse returns has ttl 300 when the lookup of
\* the X-SMT-Expires header yields undefined or null, and otherwise
\* ttl = floor((X-SMT-Expires - now) / 1000).
C13_Ttl ==
  (smInput.op = "interpretResponse" /\ ~smOutput.threw) =>
    \A i \in 1..Len(smOutput.bids) :
      smOutput.bids[i].ttl =
        (IF smInput.serverResponse.expires.t \in {"undefined", "null"} THEN 300
         ELSE (smInput.serverResponse.expires.n - smInput.now) \div 1000)

\* The bid objects of an auction recorded for the bid id with a status of
\* the given set
ObjsOf(auc, bidId, statuses) ==
  {k \in 1..Len(auc.bidObjs) :
     auc.bidObjs[k].bidId = bidId /\ auc.bidObjs[k].status \in statuses}

\* The bid request of this reference is recorded and marked used
UsedRequest(aucs, ref) ==
  /\ HasAuction(aucs, ref.auctionId)
  /\ LET auc == aucs[AuctionIndex(aucs, ref.auctionId)]
     IN /\ findReqBid(auc, ref.bidId) # 0
        /\ auc.bidReqs[findReqBid(auc, ref.bidId)].used

RequestOf(bid) ==
  IF Truthy(bid.originalRequestId) THEN bid.originalRequestId ELSE bid.requestId

\* C15: a BID_RESPONSE for a recorded bid request that has a bid object of
\* status no-bid (2) or timeout (3) leaves the number of bid objects of the
\* auction unchanged and gives that object the status success (1) or
\* floor-rejected (12) and the response's cpm, size, adId and currency; and
\* after every event no bid id has both a bid object of status no-bid or
\* timeout and one of status success.
C15_ResponseReplacesInPlace ==
  [][ /\ \A i \in 1..Len(auctions') : \A b \in BidIds :
           ~(/\ ObjsOf(auctions'[i], b, {BID_NOBID, BID_TIMEOUT}) # {}
             /\ ObjsOf(auctions'[i], b, {BID_SUCCESS}) # {})
      /\ \A bid \in BidsBidResponses :
           (/\ HasAuction(auctions, bid.auctionId)
            /\ ObjsOf(auctions[AuctionIndex(auctions, bid.auctionId)],
                       RequestOf(bid), {BID_NOBID, BID_TIMEOUT}) # {}
            /\ BID_RESPONSE(bid, bid.cpm)) =>
             LET i == AuctionIndex(auctions, bid.auctionId)
             IN /\ Len(auctions'[i].bidObjs) = Len(auctions[i].bidObjs)
                /\ \A k \in ObjsOf(auctions[i], RequestOf(bid), {BID_NOBID, BID_TIMEOUT}) :
                     /\ auctions'[i].bidObjs[k].status =
                          (IF bid.rejected THEN BID_FLOOR_REJECTED ELSE BID_SUCCESS)
                     /\ auctions'[i].bidObjs[k].cpm = bid.cpm
                     /\ size(auctions'[i].bidObjs[k]) = <<bid.width, bid.height>>
                     /\ auctions'[i].bidObjs[k].adId = bid.adId
                     /\ auctions'[i].bidObjs[k].currency = bid.currency ]_vars

\* Every bid object of a bid request (the slots' placeholders apart) that
\* has status success before the step is there after it with the same cpm,
\* size, adId and status
SuccessfulObjsKept ==
  \A i \in 1..Len(auctions) : \A k \in RealBidObjs(auctions[i]) :
    auctions[i].bidObjs[k].status = BID_SUCCESS =>
      /\ Len(auctions') >= i
      /\ Len(auctions'[i].bidObjs) >= k
      /\ auctions'[i].bidObjs[k].cpm = auctions[i].bidObjs[k].cpm
      /\ size(auctions'[i].bidObjs[k]) = size(auctions[i].bidObjs[k])
      /\ auctions'[i].bidObjs[k].adId = auctions[i].bidObjs[k].adId
      /\ auctions'[i].bidObjs[k].status = BID_SUCCESS

\* The bid request of this id is recorded in its auction and a bid object
\* of status success is recorded for it
HasSuccessfulObj(aucs, auctionId, bidId) ==
  /\ HasAuction(aucs, auctionId)
  /\ findReqBid(aucs[AuctionIndex(aucs, auctionId)], bidId) # 0
  /\ ObjsOf(aucs[AuctionIndex(aucs, auctionId)], bidId, {BID_SUCCESS}) # {}

\* C16: no event changes cpm, size, adId or status of a request's bid
\* object of status success; a BID_RESPONSE for a request that has such an
\* object appends one bid object; a NO_BID or BID_TIMEOUT for requests that
\* have such an object leaves the auctions map unchanged.
C16_SuccessNeverOverwritten ==
  [][ /\ SuccessfulObjsKept
      /\ \A bid \in BidsBidResponses :
           (HasSuccessfulObj(auctions, bid.auctionId, RequestOf(bid))
              /\ BID_RESPONSE(bid, bid.cpm)) =>
             LET i == AuctionIndex(auctions, bid.auctionId)
             IN Len(auctions'[i].bidObjs) = Len(auctions[i].bidObjs) + 1
      /\ \A ref \in BidsBidRefs :
           (HasSuccessfulObj(auctions, ref.auctionId, ref.bidId) /\ NO_BID(ref)) =>
             auctions' = auctions
      /\ \A ts \in BidsTimedOutLists :
           ((\A k \in 1..Len(ts) : HasSuccessfulObj(auctions, ts[k].auctionId, ts[k].bidId))
              /\ BID_TIMEOUT_EVENT(ts)) =>
             auctions' = auctions ]_vars

StateWithAjax(x) == [State EXCEPT !.config.ajaxState = x]

\* Handler results a and b differ in nothing but ajaxState x and the ajx of
\* the logs written by the handler
SameButAjx(a, b, x) ==
  /\ a.auctions = b.auctions
  /\ a.errorQueue = b.errorQueue
  /\ [a.config EXCEPT !.ajaxState = x] = b.config
  /\ Len(a.logsQueue) = Len(b.logsQueue)
  /\ \A k \in 1..Len(a.logsQueue) :
       b.logsQueue[k] = IF k <= Len(logsQueue) THEN a.logsQueue[k]
                        ELSE [a.logsQueue[k] EXCEPT !.ajx = x]

\* The logs a handler appended to logsQueue carry the current ajaxState
NewLogsCarryAjax(a) ==
  \A k \in (Len(logsQueue) + 1)..Len(a.logsQueue) :
    a.logsQueue[k].ajx = config.ajaxState

\* C18: events are handled whatever the state of the config fetch: ajaxState
\* is 0 (pending), 1 (pass) or 3 (error), what SET_TARGETING and BID_WON
\* record and log is the same in the three states but for the ajx of the
\* logs they write, and that ajx is the ajaxState of the moment the log is
\* built
C18_EventsNeverWaitForConfig ==
  config.exists =>
    /\ config.ajaxState \in {CONFIG_PENDING, CONFIG_PASS, CONFIG_ERROR}
    /\ \A ps \in SomeTargetingParams, r \in RandomDraws :
         /\ NewLogsCarryAjax(setTargetingHandler(State, ps, r))
         /\ \A x \in {CONFIG_PENDING, CONFIG_PASS, CONFIG_ERROR} :
              SameButAjx(setTargetingHandler(State, ps, r),
                         setTargetingHandler(StateWithAjax(x), ps, r), x)
    /\ \A b \in WonBids, t \in SomeTimes :
         /\ NewLogsCarryAjax(bidWonHandler(State, b, pageDetails, t))
         /\ \A x \in {CONFIG_PENDING, CONFIG_PASS, CONFIG_ERROR} :
              SameButAjx(bidWonHandler(State, b, pageDetails, t),
                         bidWonHandler(StateWithAjax(x), b, pageDetails, t), x)

\* A log written after the config fetch failed
C18_Witness ==
  /\ config.ajaxState = CONFIG_ERROR
  /\ Len(errorQueue) > 0
  /\ \E k \in 1..Len(logsQueue) : logsQueue[k].ajx = CONFIG_ERROR


\* One step of the adapter seen from config.ajaxState, where passing holds
\* the config responses expected to end in CONFIG_PASS: a new Configure
\* starts pending, or passed in test mode; ajaxState otherwise changes only
\* from pending, to pass or error, as the fetch of the current Configure
\* completes; a response ends in pass or error as expected and a fetch
\* failure in error
AjaxStateStep(passing) ==
  /\ originEnableCalls' # originEnableCalls =>
       config'.ajaxState = IF isTestMode(parseUrl(pageDetails'.topmostLocation))
                           THEN CONFIG_PASS ELSE CONFIG_PENDING
  /\ (originEnableCalls' = originEnableCalls
        /\ config'.ajaxState # config.ajaxState) =>
       /\ config.ajaxState = CONFIG_PENDING
       /\ config'.ajaxState \in {CONFIG_PASS, CONFIG_ERROR}
       /\ ajaxPending = 1
       /\ ajaxPending' = 0
       /\ auctions' = auctions
       /\ logsQueue' = logsQueue
  /\ \A resp \in ConfigResponses :
       ajaxSuccess(resp, FALSE) =>
         config'.ajaxState = IF resp \in passing THEN CONFIG_PASS
                             ELSE CONFIG_ERROR
  /\ ajaxError(FALSE) => config'.ajaxState = CONFIG_ERROR

\* C19: ajaxState starts pending and only goes from pending to pass, in
\* test mode or on a config response that parses as JSON, and from pending
\* to error, on a fetch failure or a response that fails to parse; no
\* lifecycle event changes it
C19_AjaxStateAsClaimed ==
  [][AjaxStateStep({resp \in ConfigResponses : resp.parses})]_vars

\* C19, amended: as above, with pass on a response that parses as JSON to a
\* value other than null and error on a fetch failure, on a response that
\* fails to parse and on the response null
C19_AjaxState ==
  [][AjaxStateStep({resp \in ConfigResponses : resp.parses /\ ~resp.isNull})]_vars

\* The fetch ended in error on a response and events were handled since
C19_Witness ==
  /\ config.ajaxState = CONFIG_ERROR
  /\ ajaxPending = 0
  /\ Len(errorQueue) > 0
  /\ errorQueue[Len(errorQueue)].event = ERROR_CONFIG_JSON_PARSE
  /\ Len(auctions) > 0

\* A failed config fetch as the step leaves it: one entry for event appended
\* to errorQueue, the Configure of the fetch with the logging percentage
\* and URL key of its construction (a replaced Configure is out of reach,
\* the current one is then untouched), logsQueue and auctions as before
FetchFailed(event, stale) ==
  /\ Len(errorQueue') = Len(errorQueue) + 1
  /\ IsPrefix(errorQueue, errorQueue')
  /\ errorQueue'[Len(errorQueue')].event = event
  /\ IF stale THEN config' = config
     ELSE /\ config'.loggingPercent = config.loggingPercent
          /\ config'.loggingPercent = DEFAULT_LOGGING_PERCENT
          /\ config'.urlToConsume = config.urlToConsume
          /\ config'.urlToConsume = DEFAULT_URL_KEY
          /\ config' = [config EXCEPT !.ajaxState = CONFIG_ERROR]
  /\ logsQueue' = logsQueue
  /\ auctions' = auctions

\* C20: a config fetch that fails appends exactly one
\* analytics_config_ajax_fail entry to errorQueue and a response that cannot
\* be parsed exactly one analytics_config_parse_fail entry; loggingPercent
\* and urlToConsume keep their values (50 and topmostLocation) and logsQueue
\* and the auctions are unchanged
C20_FetchFailure ==
  [][ /\ \A stale \in BOOLEAN :
           ajaxError(stale) => FetchFailed(ERROR_CONFIG_FETCH, stale)
      /\ \A stale \in BOOLEAN, resp \in ConfigResponses :
           ((~resp.parses \/ resp.isNull) /\ ajaxSuccess(resp, stale)) =>
             FetchFailed(ERROR_CONFIG_JSON_PARSE, stale) ]_vars

\* The fetch failed after a log was written while it was pending
C20_Witness ==
  /\ config.ajaxState = CONFIG_ERROR
  /\ config.loggingPercent = DEFAULT_LOGGING_PERCENT
  /\ Len(errorQueue) > 0
  /\ errorQueue[Len(errorQueue)].event = ERROR_CONFIG_FETCH
  /\ \E k \in 1..Len(logsQueue) : logsQueue[k].ajx = CONFIG_PENDING

\* The placeholder bid objects of ad unit code u among bidObjs
Placeholders(bidObjs, u) ==
  {k \in 1..Len(bidObjs) :
     bidObjs[k].bidder = DUMMY_BIDDER /\ bidObjs[k].adUnitCode = u}

\* AUCTION_INIT for the recorded auction old gave new: the auction is the
\* same but for slots and placeholder bids of ad unit codes it had no slot
\* for (and its floor data)
SameAuctionRecord(old, new) ==
  /\ new.acid = old.acid
  /\ new.status = old.status
  /\ new.auctionInitTime = old.auctionInitTime
  /\ new.bidWonTime = old.bidWonTime
  /\ new.bidReqs = old.bidReqs
  /\ IsPrefix(old.bidObjs, new.bidObjs)
  /\ \A u \in DOMAIN old.adSlots :
       /\ u \in DOMAIN new.adSlots
       /\ new.adSlots[u] = old.adSlots[u]
       /\ Placeholders(new.bidObjs, u) = Placeholders(old.bidObjs, u)
  /\ \A u \in DOMAIN new.adSlots : Cardinality(Placeholders(new.bidObjs, u)) = 1
  /\ \A k \in (Len(old.bidObjs) + 1)..Len(new.bidObjs) :
       /\ new.bidObjs[k].bidder = DUMMY_BIDDER
       /\ new.bidObjs[k].adUnitCode \notin DOMAIN old.adSlots

\* C21: AUCTION_INIT for an auctionId that is already recorded leaves the
\* other auctions alone and does not replace the auction: its status, init
\* time, bid requests and bid objects stay, every ad slot it has stays as it
\* is (logged, targeting, medianetPresent) with its one placeholder bid, and
\* only ad unit codes without a slot get a slot and a placeholder; the same
\* AUCTION_INIT a second time changes nothing
C21_AuctionInitIdempotent ==
  \A a \in AuctionIds, us \in AdUnitLists, t \in WonTimes, fd \in FloorDatas :
    LET after == auctionInitHandler(auctions, a, us, t, fd)
    IN /\ auctionInitHandler(after, a, us, t, fd) = after
       /\ HasAuction(auctions, a) =>
            /\ Len(after) = Len(auctions)
            /\ \A j \in 1..Len(auctions) :
                 IF j = AuctionIndex(auctions, a)
                 THEN SameAuctionRecord(auctions[j], after[j])
                 ELSE after[j] = auctions[j]

\* AUCTION_INIT for both ad units came after the auction had a used
\* medianet bid request, a bid response, its end and targeting on u1
C21_Witness ==
  \E i \in 1..Len(auctions) :
    /\ DOMAIN auctions[i].adSlots = {"u1", "u2"}
    /\ auctions[i].status = AUCTION_COMPLETED
    /\ auctions[i].adSlots["u1"].targeting.set
    /\ APPR \in auctions[i].adSlots["u1"].logged
    /\ auctions[i].adSlots["u1"].medianetPresent = 1
    /\ Len(auctions[i].bidReqs) > 0
    /\ \E k \in 1..Len(auctions[i].bidObjs) :
         /\ auctions[i].bidObjs[k].bidder # DUMMY_BIDDER
         /\ \A m \in Placeholders(auctions[i].bidObjs, "u2") : k < m

============================================================================
